---- MODULE Spec2Model ----
(***************************************************************************)
(* Model of the Bili_Video tools: the stream selection of                  *)
(* download.get_download_url, the CDN host avoidance of                    *)
(* download.select_and_avoid_mcdn_url, the leading-zero strip of           *)
(* m4s.remove_leading_zeros (start.py holds an identical copy), the        *)
(* raw-segment pipeline (m4s.process_file_pair, m4s.find_m4s_pairs and the *)
(* batch loops of gui.py and start.py) and the download pipeline (the      *)
(* locator resolution of download.get_download_url, gui start_download     *)
(* and download.merge_file_to_mp4), the single transfer of                 *)
(* download.normal_download_b_file with its progress samples, the pure     *)
(* helpers download.calculate_fnval and estimate_size, and the QR login    *)
(* (download.get_scan_code_data, gui QRLoginDialog and QRLoginThread).     *)
(*                                                                         *)
(* Python str values are TLA+ strings, Python lists are sequences, a       *)
(* Python Optional is a sequence of length 0 (None) or 1.                  *)
(***************************************************************************)
EXTENDS Integers, Sequences, FiniteSets, TLC

VARIABLES
    \* ---- get_download_url: the inputs of the DASH selection ----
    video,              \* dash_data['video']: sequence of video descriptors
    audio,              \* dash_data['audio']: sequence of audio descriptors
    qn,                 \* requested quality code
    duration,           \* caller's duration hint, seconds (0 = unknown)
    smart_resolution,   \* smart mode flag as passed by the caller
    file_size_limit,    \* MB
    preferred_codec,    \* 'auto' | 'av1' | 'hevc' | 'avc'
    is_bangumi,         \* the locator was a licensed-series episode
    stream_timelength,  \* the manifest's timelength field, ms (0 = absent)
    \* ---- get_download_url: what the call computes ----
    pc,                 \* "start" | "done" | "raised" | "idle"
    matching_videos,    \* candidate set after height matching
    sorted_videos,      \* candidates by codec rank, then bitrate
    timelength,         \* resolved duration, ms
    video_data,         \* Optional selected descriptor
    result,             \* {'videoUrl': ..., 'audioUrl': ...}
    \* ---- select_and_avoid_mcdn_url ----
    base_url, backup_urls, cdn_pc, selected_url,
    \* ---- remove_leading_zeros ----
    input_file,         \* the bytes of the input file
    in_pos,             \* read offset of in_f
    out_f,              \* the bytes written to out_f so far
    strip_pc,           \* "phase1" | "phase2" | "done" | "idle"
    \* ---- process_file_pair ----
    file1, file2,       \* the bytes of the two input files of the pair
    file_names,         \* file1.name and file2.name
    thread_pc,          \* per strip thread: "new" | "open" | "phase1" | "phase2" | "done"
    thread_pos,         \* per strip thread: read offset of its in_f
    temp_file,          \* per strip thread: Optional bytes of temp_file1 / temp_file2
    pair_pc,            \* "start1" | "start2" | "join1" | "join2" | "classify" |
                        \* "remux" | "done" | "raised" | "idle"
    size1, size2,       \* st_size of the two temp files as read at lines 101-102
    video_file,         \* 1 or 2: which temp file is ffmpeg's first input (0 = unset)
    audio_file,         \* 1 or 2: which temp file is ffmpeg's second input (0 = unset)
    pair_result,        \* "none" | "ok" | "RuntimeError" | "OSError"
    \* ---- the batch run: gui start_processing, start.py main ----
    caller,             \* "gui" | "main" | "idle"
    sub_dirs,           \* number of *.m4s files of each sub-directory, in iterdir order
    batch_pc,           \* "find" | "loop" | "done" | "failed" | "idle"
    file_pairs,         \* Optional: the pairs returned by find_m4s_pairs, each
                        \* named by the index of its sub-directory
    outcomes,           \* how the process_file_pair call of each pair taken so far ended
    \* ---- get_download_url: from the locator to the stream request ----
    locator_kind,       \* "series" | "av" | "bv" | "unknown": what the URL patterns match
    p_param,            \* Optional page number parsed from the URL's ?p=
    parts,              \* the cids of the title's parts, in page order
    cid,                \* Optional segment identifier held by the call ('' and None are None)
    calls,              \* the API requests issued so far, each with how it ended
    stream_cid,         \* Optional cid put into the stream request
    manifest,           \* what the series stream response carried
    res_pc,             \* "parse" | "ep_info" | "video_info" | "page_cid" | "session" |
                        \* "select" | "done" | "raised" | "idle"
    \* ---- gui start_download ----
    dl_pc,              \* "info" | "resolving" | "video" | "audio" | "merge" | "single" |
                        \* "done" | "failed" | "idle"
    video_track,        \* the temporary video track file exists
    audio_track,        \* the temporary audio track file exists
    transfers,          \* the track downloads started so far
    merge_result,       \* "none" | "ok" | "ffmpeg.Error" | "Exception"
    completed,          \* the tracks whose download_b_file call has returned
    \* ---- normal_download_b_file ----
    total_len,          \* advertised content length, 0 without the header
    progress_callback,  \* a callback was passed
    body,               \* the lengths of the chunks iter_content yields
    chunk_no,           \* chunks taken from iter_content so far
    now,                \* the value time.time() returns, in ms
    start_time,         \* line 665
    current_len,        \* bytes received and written so far
    last_time,          \* time of the last sample (start_time before the first), ms
    last_len,           \* current_len at the last sample
    samples,            \* the calls of progress_callback made so far
    xfer_pc,            \* "open" | "stream" | "done" | "raised" | "idle"
    xfer_return,        \* Optional: the 'totalLen' entry of the returned dictionary
    \* ---- estimate_size on two argument lists ----
    est_args,           \* the two argument lists, each [stream, audio_stream, timelength]
    est_sizes,          \* Optional: the two estimates
    \* ---- calculate_fnval ----
    fn_qn, fn_smart,    \* the arguments
    fn_result,          \* Optional: the returned dictionary
    \* ---- get_scan_code_data ----
    hook,               \* a hook was passed
    scan_pc,            \* "generate" | "hook" | "poll" | "sleep" | "return" | "done" | "idle"
    scan_events,        \* the requests and hook calls made so far
    attempt_count,      \* the loop counter of line 777
    code,               \* the code of the last poll answer (1 before the first)
    set_cookie,         \* the cookies of the last poll answer's Set-Cookie header
    scan_result,        \* Optional: the returned SESSDATA
    \* ---- QRLoginDialog and its QRLoginThread objects ----
    threads,            \* every QRLoginThread created: [state, emitted]
    qr_thread,          \* index of self.qr_thread in threads, 0 for None
    refresh_requests    \* number of refresh_qr calls made

selVars   == <<video, audio, qn, duration, smart_resolution, file_size_limit,
               preferred_codec, is_bangumi, stream_timelength, pc,
               matching_videos, sorted_videos, timelength, video_data, result>>
selInputs == <<video, audio, qn, duration, smart_resolution, file_size_limit,
               preferred_codec, is_bangumi, stream_timelength>>
selComputed == <<matching_videos, sorted_videos, timelength, video_data>>
cdnVars   == <<base_url, backup_urls, cdn_pc, selected_url>>
stripVars == <<input_file, in_pos, out_f, strip_pc>>
pairVars  == <<file1, file2, file_names, thread_pc, thread_pos, temp_file, pair_pc,
               size1, size2, video_file, audio_file, pair_result>>
\* the raw-segment pipeline
batchVars == <<caller, sub_dirs, batch_pc, file_pairs, outcomes>>
segmentVars == <<pairVars, batchVars>>
resVars   == <<locator_kind, p_param, parts, cid, calls, stream_cid, manifest, res_pc>>
\* the download pipeline
dlVars    == <<dl_pc, video_track, audio_track, transfers, merge_result, completed>>
downloadVars == <<resVars, dlVars>>
xferVars  == <<total_len, progress_callback, body, chunk_no, now, start_time, current_len,
               last_time, last_len, samples, xfer_pc, xfer_return>>
estVars   == <<est_args, est_sizes>>
fnvalVars == <<fn_qn, fn_smart, fn_result>>
scanVars  == <<hook, scan_pc, scan_events, attempt_count, code, set_cookie, scan_result>>
qrVars    == <<threads, qr_thread, refresh_requests>>
\* the single transfer, the two pure helpers and the QR login
serviceVars == <<xferVars, estVars, fnvalVars, scanVars, qrVars>>
vars      == <<selVars, cdnVars, stripVars, segmentVars, downloadVars, serviceVars>>

----------------------------------------------------------------------------
(* Bounds of the model *)

\* longest video descriptor list drawn
MaxVideos == 2
\* longest backup URL list drawn
MaxBackups == 2
\* longest input file drawn, in bytes
MaxFileLen == 4
\* block size of remove_leading_zeros, scaled down from 1024 * 1024 bytes so
\* that files of MaxFileLen bytes span several blocks
BLOCK_SIZE == 2
\* chunks of one response body, bytes of one chunk, advertised length
MaxChunks == 3
MaxChunkLen == 2
MaxTotalLen == 3
\* largest quality number drawn for calculate_fnval
MaxQn == 130
\* refresh_qr calls made on one dialog
MaxRefresh == 4

----------------------------------------------------------------------------
(* Python helpers *)

None == <<>>
Some(v) == <<v>>

Max(S) == CHOOSE x \in S : \A y \in S : y <= x
Min(S) == CHOOSE x \in S : \A y \in S : x <= y

SeqSet(s) == {s[i] : i \in 1..Len(s)}

\* all sequences over S of length lo..hi
SeqsOf(S, lo, hi) == UNION {[1..n -> S] : n \in lo..hi}

\* s1 in s2 (substring test)
Contains(pat, s) ==
    \E i \in 1..(Len(s) - Len(pat) + 1) : SubSeq(s, i, i + Len(pat) - 1) = pat

\* s.find(c) for a one-character/one-byte c, 0-based; -1 when absent
Find(s, c) ==
    IF \E i \in 1..Len(s) : SubSeq(s, i, i) = c
    THEN Min({i \in 1..Len(s) : SubSeq(s, i, i) = c}) - 1
    ELSE -1

UpperAlpha == "ABCDEFGHIJKLMNOPQRSTUVWXYZ"
LowerAlpha == "abcdefghijklmnopqrstuvwxyz"

LowerChar(c) ==
    IF \E i \in 1..Len(UpperAlpha) : SubSeq(UpperAlpha, i, i) = c
    THEN LET i == CHOOSE k \in 1..Len(UpperAlpha) : SubSeq(UpperAlpha, k, k) = c
         IN  SubSeq(LowerAlpha, i, i)
    ELSE c

\* str.lower()
RECURSIVE lower(_)
lower(s) ==
    IF Len(s) = 0 THEN ""
    ELSE LowerChar(SubSeq(s, 1, 1)) \o lower(SubSeq(s, 2, Len(s)))

\* lexicographic order on pairs of integers (Python tuple comparison)
LexLess(a, b) == a[1] < b[1] \/ (a[1] = b[1] /\ a[2] < b[2])
LexLeq(a, b)  == a = b \/ LexLess(a, b)

\* sorted(s, key=...): stable; K[i] is the key of s[i]
SortByKeys(s, K) ==
    LET n == Len(s)
        Pos(i) == 1 + Cardinality({j \in 1..n :
                        LexLess(K[j], K[i]) \/ (K[j] = K[i] /\ j < i)})
    IN  [p \in 1..n |-> s[CHOOSE i \in 1..n : Pos(i) = p]]

\* sorted(set(...), reverse=True)
RECURSIVE SortedDesc(_)
SortedDesc(S) ==
    IF S = {} THEN <<>> ELSE <<Max(S)>> \o SortedDesc(S \ {Max(S)})

\* the first element s[i] whose test ok[i] holds, as an Optional: the loop
\* `for x in s: if test(x): pick = x; break`
FirstWhere(s, ok) ==
    IF \E i \in 1..Len(s) : ok[i]
    THEN Some(s[Min({i \in 1..Len(s) : ok[i]})])
    ELSE None

----------------------------------------------------------------------------
(* download.select_and_avoid_mcdn_url *)

slow_cdn_patterns == <<".mcdn.bilivideo.cn", "mountaintoys.cn", ".szbdyd.com">>

\* s[i:] up to, not including, the first character of `stops`
UpTo(s, stops) ==
    LET hits == {i \in 1..Len(s) : SubSeq(s, i, i) \in stops}
    IN  IF hits = {} THEN s ELSE SubSeq(s, 1, Min(hits) - 1)

\* urllib.parse.urlparse(url).hostname: the text between "//" and the next
\* "/", "?" or "#", without userinfo and port, lower-cased; None when the URL
\* has no "//" after its scheme or the host is empty
urlparse_hostname(url) ==
    LET colon  == Find(url, ":")
        rest   == IF colon >= 1 THEN SubSeq(url, colon + 2, Len(url)) ELSE url
        netloc == IF Len(rest) >= 2 /\ SubSeq(rest, 1, 2) = "//"
                  THEN UpTo(SubSeq(rest, 3, Len(rest)), {"/", "?", "#"})
                  ELSE ""
        ats    == {i \in 1..Len(netloc) : SubSeq(netloc, i, i) = "@"}
        hostp  == IF ats = {} THEN netloc
                  ELSE SubSeq(netloc, Max(ats) + 1, Len(netloc))
        host   == lower(UpTo(hostp, {":"}))
    IN  IF host = "" THEN None ELSE Some(host)

\* `pattern in hostname` raises TypeError on a None hostname; the bare
\* except turns that into False
is_slow_cdn(url) ==
    LET hostname == urlparse_hostname(url)
    IN  IF hostname = None THEN FALSE
        ELSE \E k \in 1..Len(slow_cdn_patterns) :
                 Contains(slow_cdn_patterns[k], hostname[1])

\* the URLs of the model
PrimaryUrl == "https://a.mcdn.bilivideo.cn:80/v"
BackupUrl  == "https://b.bilivideo.com/v"
Urls ==
    { BackupUrl, PrimaryUrl,
      "https://c.szbdyd.com/v",
      "HTTPS://D.MOUNTAINTOYS.CN/v",
      "https://e.cn/v.szbdyd.com",
      "" }

\* is_slow_cdn over the URLs of the model, evaluated once
SlowCdnTable == [u \in Urls |-> is_slow_cdn(u)]

NotSlow(url) == ~SlowCdnTable[url]

select_and_avoid_mcdn_url_first_backup_only(base, backups) ==
    IF NotSlow(base) THEN base
    ELSE IF backups # <<>> /\ NotSlow(backups[1]) THEN backups[1] ELSE base

select_and_avoid_mcdn_url(base, backups) ==
    IF NotSlow(base) THEN base
    ELSE LET hit == FirstWhere(backups, [i \in 1..Len(backups) |-> NotSlow(backups[i])])
         IN  IF hit # None THEN hit[1] ELSE base

----------------------------------------------------------------------------
(* download.get_download_url: height targeting and matching *)

height_map_keys == {127, 126, 125, 120, 116, 112, 80, 74, 64, 32, 16}

height_map(q) ==
    CASE q = 127 -> 4320
      [] q \in {126, 125, 120} -> 2160
      [] q \in {116, 112, 80} -> 1080
      [] q \in {74, 64} -> 720
      [] q = 32 -> 480
      [] q = 16 -> 360

Heights(vs) == {vs[i].height : i \in 1..Len(vs)}

\* height_map.get(int(qn)); an unknown qn targets the best offered height
target_height(vs, q) ==
    IF q \in height_map_keys THEN height_map(q)
    ELSE IF vs # <<>> THEN Max(Heights(vs)) ELSE 1080

WithHeight(vs, h) == SelectSeq(vs, LAMBDA v : v.height = h)

\* the degrade step: the offered heights at or below the target, best first,
\* narrowed to the best of them
DegradeMatch(vs, target) ==
    LET below  == SelectSeq(vs, LAMBDA v : v.height <= target)
        sorted == SortByKeys(below, [i \in 1..Len(below) |-> <<0 - below[i].height, 0>>])
    IN  IF sorted # <<>> THEN WithHeight(sorted, sorted[1].height) ELSE <<>>

ForcedUpgradeBelowMin(vs) ==
    LET min_height == IF vs # <<>> THEN Min(Heights(vs)) ELSE 0
    IN  SelectSeq(vs, LAMBDA v : v.height < min_height)

\* the forced upgrade: every offered height exceeds the target
ForcedUpgrade(vs) ==
    LET min_height == IF vs # <<>> THEN Min(Heights(vs)) ELSE 0
    IN  WithHeight(vs, min_height)

\* lines 450-475 raise IndexError (available_heights[0]) when the exact
\* filter finds nothing in an empty video list
\* the exact-mode lookup raising whenever the target height is not offered
HeightMatchRaisesNoExact(vs, q, smart) ==
    ~smart /\ WithHeight(vs, target_height(vs, q)) = <<>>

HeightMatchRaises(vs, q, smart) ==
    ~smart /\ WithHeight(vs, target_height(vs, q)) = <<>> /\ vs = <<>>

HeightMatching(vs, q, smart) ==
    IF smart THEN vs
    ELSE LET target == target_height(vs, q)
             exact  == WithHeight(vs, target)
             degr   == IF exact = <<>> THEN DegradeMatch(vs, target) ELSE exact
         IN  IF degr = <<>> THEN ForcedUpgrade(vs) ELSE degr

----------------------------------------------------------------------------
(* download.get_download_url: codec ranking and size estimate *)

get_codec_type(codecs) ==
    LET codec_lower == lower(codecs)
    IN  IF Contains("av01", codec_lower) \/ Contains("av1", codec_lower) THEN "av1"
        ELSE IF Contains("hev1", codec_lower) \/ Contains("hevc", codec_lower) THEN "hevc"
        ELSE IF Contains("avc1", codec_lower) \/ Contains("avc", codec_lower) THEN "avc"
        ELSE "unknown"

codec_priority_avc_swapped(pref, type) ==
    CASE type = "unknown" -> 999
      [] pref = "hevc" -> (CASE type = "av1" -> 2 [] type = "hevc" -> 1 [] type = "avc" -> 3)
      [] pref = "avc"  -> (CASE type = "av1" -> 3 [] type = "hevc" -> 2 [] type = "avc" -> 1)
      [] OTHER         -> (CASE type = "av1" -> 1 [] type = "hevc" -> 2 [] type = "avc" -> 3)

\* codec_priority[type] for the caller's preferred codec
codec_priority(pref, type) ==
    CASE type = "unknown" -> 999
      [] pref = "hevc" -> (CASE type = "av1" -> 2 [] type = "hevc" -> 1 [] type = "avc" -> 3)
      [] pref = "avc"  -> (CASE type = "av1" -> 2 [] type = "hevc" -> 3 [] type = "avc" -> 1)
      [] OTHER         -> (CASE type = "av1" -> 1 [] type = "hevc" -> 2 [] type = "avc" -> 3)

\* the codec strings of the model
CodecStrings == {"av01.0", "hev1.1", "avc1.64", "AVC1.64", "vp09.0"}

\* get_codec_type over the codec strings of the model, evaluated once
CodecTypeTable == [c \in CodecStrings |-> get_codec_type(c)]

CodecType(v) == CodecTypeTable[v.codecs]

Rank(pref, v) == codec_priority(pref, CodecType(v))

\* bits in one MB: the estimate below is kept in bits so that it stays an
\* integer; estimate_size's MB value is EstimateBits / BitsPerMB
BitsPerMB == 8 * 1024 * 1024

estimate_size_audio_subtracted(stream, audio_stream, tl) ==
    LET audio_bandwidth  == IF audio_stream # None THEN audio_stream[1].bandwidth ELSE 0
        duration_seconds ==
            IF tl > 0 THEN tl \div 1000
            ELSE IF stream.duration # 0 THEN stream.duration
            ELSE IF audio_stream # None THEN audio_stream[1].duration ELSE 0
    IN  (stream.bandwidth - audio_bandwidth) * duration_seconds

\* estimate_size(stream, audio_stream, timelength) * BitsPerMB.  Durations
\* in the model are whole seconds, so timelength / 1000 is exact.
estimate_size(stream, audio_stream, tl) ==
    LET video_bandwidth  == stream.bandwidth
        audio_bandwidth  == IF audio_stream # None THEN audio_stream[1].bandwidth ELSE 0
        total_bandwidth  == video_bandwidth + audio_bandwidth
        duration_seconds ==
            IF tl > 0 THEN tl \div 1000
            ELSE IF stream.duration # 0 THEN stream.duration
            ELSE IF audio_stream # None THEN audio_stream[1].duration ELSE 0
    IN  total_bandwidth * duration_seconds

\* estimated_size <= file_size_limit
FitsLimit(stream, audio_stream, tl, limit) ==
    estimate_size(stream, audio_stream, tl) <= limit * BitsPerMB

\* sorted(vs, key=(codec_priority, bandwidth))
SortCodecBitrate(vs, pref) ==
    SortByKeys(vs, [i \in 1..Len(vs) |-> <<Rank(pref, vs[i]), vs[i].bandwidth>>])

SortCodecBitrateDescAscending(vs, pref) ==
    SortByKeys(vs, [i \in 1..Len(vs) |-> <<Rank(pref, vs[i]), vs[i].bandwidth>>])

\* sorted(vs, key=(codec_priority, -bandwidth))
SortCodecBitrateDesc(vs, pref) ==
    SortByKeys(vs, [i \in 1..Len(vs) |-> <<Rank(pref, vs[i]), 0 - vs[i].bandwidth>>])

\* lines 521-530: the caller's hint, else the manifest's timelength, else
\* the first video descriptor's duration, else the audio descriptor's
ResolveTimelength(dur, tl_field, vs, audio_data) ==
    IF dur > 0 THEN dur * 1000
    ELSE IF tl_field # 0 THEN tl_field
    ELSE IF vs # <<>> /\ vs[1].duration # 0 THEN vs[1].duration * 1000
    ELSE IF audio_data # None /\ audio_data[1].duration # 0 THEN audio_data[1].duration * 1000
    ELSE 0
----------------------------------------------------------------------------
(* download.get_download_url: the size-aware final pick *)

\* reference duration of the bitrate-ceiling policy, seconds
assumed_duration == 300

\* total_bandwidth <= (file_size_limit * 1024 * 1024 * 8) / assumed_duration
UnderCeiling(candidate, audio_data, limit) ==
    LET audio_bandwidth == IF audio_data # None THEN audio_data[1].bandwidth ELSE 0
    IN  (candidate.bandwidth + audio_bandwidth) * assumed_duration <= limit * BitsPerMB

\* lines 543-555: no duration known, not a licensed series
BitrateCeilingPick(sorted, audio_data, limit) ==
    LET hit == FirstWhere(sorted, [i \in 1..Len(sorted) |->
                              UnderCeiling(sorted[i], audio_data, limit)])
    IN  IF hit # None THEN hit ELSE Some(sorted[Len(sorted)])

\* lines 562-578: the heights best first, each by codec rank then bitrate
\* descending; the first candidate that fits ends both loops
RECURSIVE SmartWalk(_, _, _, _, _, _)
SmartWalk(available_heights, vs, audio_data, tl, limit, pref) ==
    IF available_heights = <<>> THEN None
    ELSE LET height_videos        == WithHeight(vs, Head(available_heights))
             sorted_height_videos == SortCodecBitrateDesc(height_videos, pref)
             hit == FirstWhere(sorted_height_videos,
                               [i \in 1..Len(sorted_height_videos) |->
                                   FitsLimit(sorted_height_videos[i], audio_data, tl, limit)])
         IN  IF hit # None THEN hit
             ELSE SmartWalk(Tail(available_heights), vs, audio_data, tl, limit, pref)

\* lines 558-583: smart mode
SmartPick(vs, audio_data, tl, limit, pref) ==
    LET available_heights == SortedDesc(Heights(vs))
        hit == SmartWalk(available_heights, vs, audio_data, tl, limit, pref)
    IN  IF hit # None THEN hit
        ELSE LET lowest_height == available_heights[Len(available_heights)]
                 lowest_videos == WithHeight(vs, lowest_height)
                 by_bandwidth  == SortByKeys(lowest_videos,
                     [i \in 1..Len(lowest_videos) |-> <<lowest_videos[i].bandwidth, 0>>])
             IN  Some(by_bandwidth[1])

\* lines 586-597: licensed series; the size limit is not read
BangumiPick(vs, target, pref) ==
    LET at_target      == WithHeight(vs, target)
        bangumi_videos == IF at_target # <<>> THEN at_target
                          ELSE WithHeight(vs, Max(Heights(vs)))
        sorted         == SortCodecBitrate(bangumi_videos, pref)
    IN  IF sorted # <<>> THEN Some(sorted[1]) ELSE None

ExactPickFallbackFirst(sorted, audio_data, tl, limit) ==
    LET hit == FirstWhere(sorted, [i \in 1..Len(sorted) |->
                              FitsLimit(sorted[i], audio_data, tl, limit)])
    IN  IF hit # None THEN hit ELSE Some(sorted[1])

\* lines 598-609: exact quality, duration known, normal title
ExactPick(sorted, audio_data, tl, limit) ==
    LET hit == FirstWhere(sorted, [i \in 1..Len(sorted) |->
                              FitsLimit(sorted[i], audio_data, tl, limit)])
    IN  IF hit # None THEN hit ELSE Some(sorted[Len(sorted)])

\* lines 477-609: the selected video descriptor, None when there is no
\* candidate.  Line 534 clears the local smart flag for a licensed series.
SelectStream(vs, matching, audio_data, tl, q, smart, limit, pref, bangumi) ==
    IF matching = <<>> THEN None
    ELSE LET sorted == SortCodecBitrate(matching, pref)
             smart_local == IF bangumi THEN FALSE ELSE smart
         IN  IF tl = 0 /\ ~bangumi THEN BitrateCeilingPick(sorted, audio_data, limit)
             ELSE IF smart_local THEN SmartPick(vs, audio_data, tl, limit, pref)
             ELSE IF bangumi THEN BangumiPick(vs, target_height(vs, q), pref)
             ELSE ExactPick(sorted, audio_data, tl, limit)

\* lines 611-628: the returned URL pair
ResultOf(vd, audio_list) ==
    IF vd = None THEN [videoUrl |-> None, audioUrl |-> None]
    ELSE [videoUrl |-> Some(select_and_avoid_mcdn_url(vd[1].baseUrl, vd[1].backupUrl)),
          audioUrl |-> IF audio_list # <<>>
                       THEN Some(select_and_avoid_mcdn_url(audio_list[1].baseUrl,
                                                          audio_list[1].backupUrl))
                       ELSE None]

\* get_download_url from the fetched DASH manifest on (lines 424-628)
GetDownloadUrl ==
    /\ pc = "start"
    /\ IF HeightMatchRaises(video, qn, smart_resolution)
       THEN /\ pc' = "raised"
            /\ UNCHANGED <<matching_videos, sorted_videos, timelength, video_data, result>>
       ELSE LET matching   == HeightMatching(video, qn, smart_resolution)
                audio_data == IF audio # <<>> THEN Some(audio[1]) ELSE None
                tl == IF matching # <<>>
                      THEN ResolveTimelength(duration, stream_timelength, video, audio_data)
                      ELSE 0
                vd == SelectStream(video, matching, audio_data, tl, qn, smart_resolution,
                                   file_size_limit, preferred_codec, is_bangumi)
            IN  /\ matching_videos' = matching
                /\ sorted_videos' = SortCodecBitrate(matching, preferred_codec)
                /\ timelength' = tl
                /\ video_data' = vd
                /\ result' = ResultOf(vd, audio)
                /\ pc' = "done"
    /\ UNCHANGED <<video, audio, qn, duration, smart_resolution, file_size_limit,
                   preferred_codec, is_bangumi, stream_timelength>>
    /\ UNCHANGED <<cdnVars, stripVars, segmentVars, downloadVars, serviceVars>>
----------------------------------------------------------------------------
(* download.select_and_avoid_mcdn_url as an operation *)

SelectUrl ==
    /\ cdn_pc = "start"
    /\ selected_url' = Some(select_and_avoid_mcdn_url(base_url, backup_urls))
    /\ cdn_pc' = "done"
    /\ UNCHANGED <<base_url, backup_urls>>
    /\ UNCHANGED <<selVars, stripVars, segmentVars, downloadVars, serviceVars>>

----------------------------------------------------------------------------
(* m4s.remove_leading_zeros *)

zero_byte == <<0>>

\* in_f.read(BLOCK_SIZE): at most BLOCK_SIZE bytes from the read offset
ReadChunk(file, pos) ==
    SubSeq(file, pos + 1, IF pos + BLOCK_SIZE <= Len(file) THEN pos + BLOCK_SIZE ELSE Len(file))

\* chunk[i:] for a 0-based i
SliceFrom(chunk, i) == SubSeq(chunk, i + 1, Len(chunk))

\* one pass of the first loop (lines 34-46)
StripPhase1 ==
    /\ strip_pc = "phase1"
    /\ LET chunk == ReadChunk(input_file, in_pos)
           non_zero_pos == Find(chunk, zero_byte)
       IN  /\ in_pos' = in_pos + Len(chunk)
           /\ IF chunk = <<>>
              THEN strip_pc' = "phase2" /\ out_f' = out_f
              ELSE IF non_zero_pos = -1
              THEN strip_pc' = "phase1" /\ out_f' = out_f
              ELSE strip_pc' = "phase2" /\ out_f' = out_f \o SliceFrom(chunk, non_zero_pos)
    /\ UNCHANGED input_file
    /\ UNCHANGED <<selVars, cdnVars, segmentVars, downloadVars, serviceVars>>

\* one pass of the second loop (lines 49-53)
StripPhase2 ==
    /\ strip_pc = "phase2"
    /\ LET chunk == ReadChunk(input_file, in_pos)
       IN  /\ in_pos' = in_pos + Len(chunk)
           /\ IF chunk = <<>>
              THEN strip_pc' = "done" /\ out_f' = out_f
              ELSE strip_pc' = "phase2" /\ out_f' = out_f \o chunk
    /\ UNCHANGED input_file
    /\ UNCHANGED <<selVars, cdnVars, segmentVars, downloadVars, serviceVars>>

----------------------------------------------------------------------------
(* m4s.process_file_pair (start.py holds a copy bound to module globals) *)

\* one pass of a loop of remove_leading_zeros run by a strip thread: the
\* first loop (lines 34-46) in phase "phase1", the second (lines 49-53) in
\* phase "phase2"
StripChunk(file, pos, out, phase) ==
    LET chunk == ReadChunk(file, pos)
        non_zero_pos == Find(chunk, zero_byte)
    IN  [pos   |-> pos + Len(chunk),
         out   |-> IF chunk = <<>> THEN out
                   ELSE IF phase = "phase2" THEN out \o chunk
                   ELSE IF non_zero_pos = -1 THEN out
                   ELSE out \o SliceFrom(chunk, non_zero_pos),
         phase |-> IF chunk = <<>> THEN (IF phase = "phase1" THEN "phase2" ELSE "done")
                   ELSE IF phase = "phase2" THEN "phase2"
                   ELSE IF non_zero_pos = -1 THEN "phase1"
                   ELSE "phase2"]

InputOf(t) == IF t = 1 THEN file1 ELSE file2

\* st_size of a temp file
StatSize(f) == Len(f[1])

\* line 104 with the comparison reversed
ClassifyVideoSmaller(s1, s2) == IF s1 < s2 THEN 1 ELSE 2

\* line 104: video_file = temp_file1 if size1 > size2 else temp_file2
ClassifyVideo(s1, s2) == IF s1 > s2 THEN 1 ELSE 2

\* line 105: audio_file = temp_file2 if size1 > size2 else temp_file1
ClassifyAudio(s1, s2) == IF s1 > s2 THEN 2 ELSE 1

pairRest == <<file1, file2, file_names, size1, size2, video_file, audio_file, pair_result>>

\* the names of the two *.m4s files of a sub-directory
M4sNames == {"audio.m4s", "video.m4s"}

\* lines 89-90: temp_file1 = temp_dir / file1.name, temp_file2 likewise; a
\* path inside temp_dir is given by its name
TempPath(t) == file_names[t]

\* thread1.start() (line 95)
StartThread1 ==
    /\ pair_pc = "start1"
    /\ thread_pc' = [thread_pc EXCEPT ![1] = "open"]
    /\ pair_pc' = "start2"
    /\ UNCHANGED <<thread_pos, temp_file, pairRest>>
    /\ UNCHANGED <<selVars, cdnVars, stripVars, batchVars, downloadVars, serviceVars>>

\* thread2.start() (line 96)
StartThread2 ==
    /\ pair_pc = "start2"
    /\ thread_pc' = [thread_pc EXCEPT ![2] = "open"]
    /\ pair_pc' = "join1"
    /\ UNCHANGED <<thread_pos, temp_file, pairRest>>
    /\ UNCHANGED <<selVars, cdnVars, stripVars, batchVars, downloadVars, serviceVars>>

\* a strip thread opens its files (line 32): open(output_file, "wb") creates
\* or truncates the temp file
ThreadOpen(t) ==
    /\ thread_pc[t] = "open"
    /\ temp_file' = [temp_file EXCEPT ![TempPath(t)] = Some(<<>>)]
    /\ thread_pc' = [thread_pc EXCEPT ![t] = "phase1"]
    /\ UNCHANGED <<thread_pos, pair_pc, pairRest>>
    /\ UNCHANGED <<selVars, cdnVars, stripVars, batchVars, downloadVars, serviceVars>>

\* a strip thread reads and handles one block (lines 34-53)
ThreadChunk(t) ==
    /\ thread_pc[t] \in {"phase1", "phase2"}
    /\ LET r == StripChunk(InputOf(t), thread_pos[t], temp_file[TempPath(t)][1], thread_pc[t])
       IN  /\ thread_pos' = [thread_pos EXCEPT ![t] = r.pos]
           /\ temp_file' = [temp_file EXCEPT ![TempPath(t)] = Some(r.out)]
           /\ thread_pc' = [thread_pc EXCEPT ![t] = r.phase]
    /\ UNCHANGED <<pair_pc, pairRest>>
    /\ UNCHANGED <<selVars, cdnVars, stripVars, batchVars, downloadVars, serviceVars>>

\* thread1.join() returns (line 97)
JoinThread1 ==
    /\ pair_pc = "join1"
    /\ thread_pc[1] = "done"
    /\ pair_pc' = "join2"
    /\ UNCHANGED <<thread_pc, thread_pos, temp_file, pairRest>>
    /\ UNCHANGED <<selVars, cdnVars, stripVars, batchVars, downloadVars, serviceVars>>

JoinThread2NoWait ==
    /\ pair_pc = "join2"
    /\ pair_pc' = "classify"
    /\ UNCHANGED <<thread_pc, thread_pos, temp_file, pairRest>>
    /\ UNCHANGED <<selVars, cdnVars, stripVars, batchVars, downloadVars, serviceVars>>

\* thread2.join() returns (line 98)
JoinThread2 ==
    /\ pair_pc = "join2"
    /\ thread_pc[2] = "done"
    /\ pair_pc' = "classify"
    /\ UNCHANGED <<thread_pc, thread_pos, temp_file, pairRest>>
    /\ UNCHANGED <<selVars, cdnVars, stripVars, batchVars, downloadVars, serviceVars>>

\* lines 100-121: the sizes are read, the roles assigned and the ffmpeg
\* command line built
Classify ==
    /\ pair_pc = "classify"
    /\ size1' = StatSize(temp_file[TempPath(1)])
    /\ size2' = StatSize(temp_file[TempPath(2)])
    /\ video_file' = ClassifyVideo(size1', size2')
    /\ audio_file' = ClassifyAudio(size1', size2')
    /\ pair_pc' = "remux"
    /\ UNCHANGED <<file1, file2, file_names, thread_pc, thread_pos, temp_file, pair_result>>
    /\ UNCHANGED <<selVars, cdnVars, stripVars, batchVars, downloadVars, serviceVars>>

\* how subprocess.run(cmd, check=True) can end: exit status 0, a non-zero
\* exit status (CalledProcessError, re-raised as RuntimeError at line 130) or
\* the executable cannot be started (OSError, not caught)
RemuxOutcomes == {"ok", "RuntimeError", "OSError"}

\* lines 122-134: ffmpeg runs, and the finally clause unlinks both temp files
Remux ==
    /\ pair_pc = "remux"
    /\ \E outcome \in RemuxOutcomes :
          /\ pair_result' = outcome
          /\ pair_pc' = IF outcome = "ok" THEN "done" ELSE "raised"
    /\ temp_file' = [n \in M4sNames |->
                        IF n \in {TempPath(1), TempPath(2)} THEN None ELSE temp_file[n]]
    /\ UNCHANGED <<file1, file2, file_names, thread_pc, thread_pos, size1, size2,
                   video_file, audio_file>>
    /\ UNCHANGED <<selVars, cdnVars, stripVars, batchVars, downloadVars, serviceVars>>

----------------------------------------------------------------------------
(* The batch run: m4s.find_m4s_pairs, gui start_processing, start.py main *)

\* longest list of sub-directories drawn
MaxDirs == 3

\* find_m4s_pairs (m4s.py lines 10-24, start.py lines 33-50): the scan raises
\* ValueError at the first sub-directory that does not hold two *.m4s files,
\* and after the scan when no pair was collected
find_m4s_pairs(dirs) ==
    IF \E i \in 1..Len(dirs) : dirs[i] # 2
    THEN [raised |-> TRUE, pairs |-> <<>>]
    ELSE IF dirs = <<>>
    THEN [raised |-> TRUE, pairs |-> <<>>]
    ELSE [raised |-> FALSE, pairs |-> [i \in 1..Len(dirs) |-> i]]

\* how one process_file_pair call of the loop can end.  gui.py line 562
\* passes four arguments to m4s.process_file_pair, which requires five
\* (line 86): the call raises TypeError before the body runs.  start.py line
\* 147 calls its own two-parameter copy, which ends as ffmpeg does.
CallOutcomes(c) == IF c = "gui" THEN {"TypeError"} ELSE RemuxOutcomes

\* gui.py line 542, start.py line 142; an exception ends the run in the outer
\* handler (gui.py 573-577, start.py 151-156)
FindPairs ==
    /\ batch_pc = "find"
    /\ LET r == find_m4s_pairs(sub_dirs)
       IN  IF r.raised
           THEN batch_pc' = "failed" /\ file_pairs' = None
           ELSE batch_pc' = "loop" /\ file_pairs' = Some(r.pairs)
    /\ UNCHANGED <<caller, sub_dirs, outcomes>>
    /\ UNCHANGED <<selVars, cdnVars, stripVars, pairVars, downloadVars, serviceVars>>

\* one pass of the loop (gui.py 552-567, start.py 145-147): the gui logs a
\* failure and continues, start.py leaves the loop through its handler
ProcessPair ==
    /\ batch_pc = "loop"
    /\ Len(outcomes) < Len(file_pairs[1])
    /\ \E o \in CallOutcomes(caller) :
          /\ outcomes' = Append(outcomes, o)
          /\ batch_pc' = IF o # "ok" /\ caller = "main" THEN "failed" ELSE "loop"
    /\ UNCHANGED <<caller, sub_dirs, file_pairs>>
    /\ UNCHANGED <<selVars, cdnVars, stripVars, pairVars, downloadVars, serviceVars>>

\* the loop is exhausted (gui.py 569-571, start.py 149)
FinishBatch ==
    /\ batch_pc = "loop"
    /\ Len(outcomes) = Len(file_pairs[1])
    /\ batch_pc' = "done"
    /\ UNCHANGED <<caller, sub_dirs, file_pairs, outcomes>>
    /\ UNCHANGED <<selVars, cdnVars, stripVars, pairVars, downloadVars, serviceVars>>

----------------------------------------------------------------------------
(* download.get_download_url: from the locator to the stream request *)

\* most parts of a title drawn
MaxParts == 2

\* how an API request can end: a success envelope, an envelope reporting a
\* non-success status (code # 0, no data), or an exception of requests.get /
\* response.json
RequestOutcomes == {"ok", "status", "exception"}

\* Python truthiness of `p_param and ... and p_param > 0` (lines 371, 376)
PageGiven(p) == p # None /\ p[1] > 0

\* lines 371-375: the cid taken from get_video_info's result for an av
\* locator; video_info['cid'] is the first page's cid, '' without pages
AvCid(pages, p) ==
    IF PageGiven(p) /\ pages # <<>> /\ Len(pages) >= p[1]
    THEN Some(pages[p[1]])
    ELSE IF pages # <<>> THEN Some(pages[1]) ELSE None

\* get_page_cid (lines 118-137): every failure of the request ends in the
\* except clause, which returns None
get_page_cid(outcome, pages, p_number) ==
    IF outcome # "ok" THEN None
    ELSE IF pages # <<>> /\ Len(pages) >= p_number /\ p_number > 0
    THEN Some(pages[p_number])
    ELSE IF pages # <<>> THEN Some(pages[1]) ELSE None

\* what a series stream response can carry: DASH data, entries of durl,
\* entries of durls
NoManifest == [dash |-> FALSE, durl |-> 0, durls |-> 0]
Manifests == [dash : BOOLEAN, durl : {0, 1}, durls : {0, 1}]

\* get_bangumi_bili_video_with_session lines 285-294: the type of the
\* response, "raise" for the two exceptions
bangumi_stream_type(m) ==
    IF m.dash THEN "dash"
    ELSE IF m.durl > 0 \/ m.durls > 0 THEN "durl"
    ELSE "raise"

\* lines 407-419: the return value for a response of type durl
DurlReturn(m) ==
    IF m.durl = 0
    THEN [videoUrl |-> None, audioUrl |-> None]
    ELSE [videoUrl |-> Some(select_and_avoid_mcdn_url(PrimaryUrl, <<BackupUrl>>)),
          audioUrl |-> None]

Call(api, status) == [api |-> api, status |-> status]

resRest == <<locator_kind, p_param, parts>>

\* lines 334-378: which pattern the locator matches decides the next call
ParseLocator ==
    /\ res_pc = "parse"
    /\ res_pc' = CASE locator_kind = "series"  -> "ep_info"
                   [] locator_kind = "unknown" -> "raised"
                   [] locator_kind = "av"      -> "video_info"
                   [] OTHER -> IF PageGiven(p_param) THEN "page_cid" ELSE "session"
    /\ UNCHANGED <<cid, calls, stream_cid, manifest, resRest>>
    /\ UNCHANGED <<selVars, cdnVars, stripVars, segmentVars, dlVars, serviceVars>>

\* lines 339-343 with get_bangumi_video_info (175-236), which returns None
\* for a non-zero code, for a response without episodes and for any
\* exception
EpInfoLookup ==
    /\ res_pc = "ep_info"
    /\ \E outcome \in RequestOutcomes \cup {"no_episode"} :
          /\ calls' = Append(calls, Call("ep_info", outcome))
          /\ IF outcome = "ok"
             THEN cid' = Some(parts[1]) /\ res_pc' = "session"
             ELSE cid' = cid /\ res_pc' = "raised"
    /\ UNCHANGED <<stream_cid, manifest, resRest>>
    /\ UNCHANGED <<selVars, cdnVars, stripVars, segmentVars, dlVars, serviceVars>>

\* lines 368-375 with get_video_info (140-172), whose resp_json['data']
\* raises for a response without data
VideoInfoLookup ==
    /\ res_pc = "video_info"
    /\ \E outcome \in RequestOutcomes :
          /\ calls' = Append(calls, Call("view", outcome))
          /\ IF outcome = "ok"
             THEN cid' = AvCid(parts, p_param) /\ res_pc' = "session"
             ELSE cid' = cid /\ res_pc' = "raised"
    /\ UNCHANGED <<stream_cid, manifest, resRest>>
    /\ UNCHANGED <<selVars, cdnVars, stripVars, segmentVars, dlVars, serviceVars>>

\* lines 376-378 with get_page_cid (118-137)
PageCidLookup ==
    /\ res_pc = "page_cid"
    /\ \E outcome \in RequestOutcomes :
          /\ calls' = Append(calls, Call("view", outcome))
          /\ cid' = get_page_cid(outcome, parts, p_param[1])
    /\ res_pc' = "session"
    /\ UNCHANGED <<stream_cid, manifest, resRest>>
    /\ UNCHANGED <<selVars, cdnVars, stripVars, segmentVars, dlVars, serviceVars>>

\* get_bili_video_with_session lines 243-244 with fetch_cid (107-115), whose
\* json_data['data'][0] raises for a response without data
FetchCid ==
    /\ res_pc = "session"
    /\ locator_kind # "series"
    /\ cid = None
    /\ \E outcome \in RequestOutcomes :
          /\ calls' = Append(calls, Call("pagelist", outcome))
          /\ IF outcome = "ok"
             THEN cid' = Some(parts[1]) /\ res_pc' = "session"
             ELSE cid' = cid /\ res_pc' = "raised"
    /\ UNCHANGED <<stream_cid, manifest, resRest>>
    /\ UNCHANGED <<selVars, cdnVars, stripVars, segmentVars, dlVars, serviceVars>>

\* the stream request of a normal title (get_bili_video_with_session lines
\* 246-262): a non-zero code raises, otherwise the DASH selection follows
RequestStream ==
    /\ res_pc = "session"
    /\ locator_kind # "series"
    /\ cid # None
    /\ stream_cid' = cid
    /\ \E outcome \in RequestOutcomes :
          /\ calls' = Append(calls, Call("stream", outcome))
          /\ IF outcome = "ok"
             THEN res_pc' = "select" /\ pc' = "start"
             ELSE res_pc' = "raised" /\ pc' = pc
    /\ UNCHANGED <<cid, manifest, resRest>>
    /\ UNCHANGED <<selInputs, selComputed, result>>
    /\ UNCHANGED <<cdnVars, stripVars, segmentVars, dlVars, serviceVars>>

\* the stream request of a series episode (lines 400-419 with
\* get_bangumi_bili_video_with_session, 265-294)
RequestBangumiStream ==
    /\ res_pc = "session"
    /\ locator_kind = "series"
    /\ stream_cid' = cid
    /\ \E outcome \in RequestOutcomes, m \in Manifests :
          /\ calls' = Append(calls, Call("stream", outcome))
          /\ IF outcome # "ok"
             THEN res_pc' = "raised" /\ pc' = pc /\ result' = result /\ manifest' = manifest
             ELSE /\ manifest' = m
                  /\ CASE bangumi_stream_type(m) = "dash" ->
                            res_pc' = "select" /\ pc' = "start" /\ result' = result
                       [] bangumi_stream_type(m) = "durl" ->
                            res_pc' = "done" /\ pc' = pc /\ result' = DurlReturn(m)
                       [] OTHER ->
                            res_pc' = "raised" /\ pc' = pc /\ result' = result
    /\ UNCHANGED <<cid, resRest>>
    /\ UNCHANGED <<selInputs, selComputed>>
    /\ UNCHANGED <<cdnVars, stripVars, segmentVars, dlVars, serviceVars>>

----------------------------------------------------------------------------
(* gui start_download with download.merge_file_to_mp4 *)

\* how ffmpeg.run can end inside merge_file_to_mp4: normally, with
\* ffmpeg.Error (line 746) or with another exception (line 750)
MergeOutcomes == {"ok", "ffmpeg.Error", "Exception"}

\* merge_file_to_mp4 (lines 717-753): whether a track file that existed
\* before the call exists after it; the unlink calls of lines 738-741 are
\* reached only when ffmpeg.run returned
merge_file_to_mp4(outcome, should_delete, exists) ==
    IF outcome = "ok" /\ should_delete THEN FALSE ELSE exists

\* the test of lines 770-771 left out
TransferAllowedWithoutUrl(raised, res) == ~raised

\* gui.py lines 757-771: the transfer stage is entered only when
\* get_download_url returned and its result carries a video URL
TransferAllowed(raised, res) == ~raised /\ res.videoUrl # None

\* lines 736-753: the title lookup that precedes get_download_url;
\* get_video_info raises ValueError for a URL without /video/ before any
\* request is made
GetInfo ==
    /\ dl_pc = "info"
    /\ IF locator_kind = "unknown"
       THEN dl_pc' = "failed" /\ calls' = calls /\ res_pc' = res_pc
       ELSE \E outcome \in RequestOutcomes \cup
                           (IF locator_kind = "series" THEN {"no_episode"} ELSE {}) :
               /\ calls' = Append(calls, Call(IF locator_kind = "series"
                                              THEN "ep_info" ELSE "view", outcome))
               /\ IF outcome = "ok"
                  THEN dl_pc' = "resolving" /\ res_pc' = "parse"
                  ELSE dl_pc' = "failed" /\ res_pc' = res_pc
    /\ UNCHANGED <<cid, stream_cid, manifest, resRest>>
    /\ UNCHANGED <<video_track, audio_track, transfers, merge_result, completed>>
    /\ UNCHANGED <<selVars, cdnVars, stripVars, segmentVars, serviceVars>>

\* lines 757-771 once get_download_url has ended: an exception goes to the
\* handler of lines 891-895
CheckUrls ==
    /\ dl_pc = "resolving"
    /\ \/ res_pc \in {"done", "raised"}
       \/ res_pc = "select" /\ pc \in {"done", "raised"}
    /\ dl_pc' = IF TransferAllowed(res_pc = "raised" \/ pc = "raised", result)
                THEN "video" ELSE "failed"
    /\ UNCHANGED <<video_track, audio_track, transfers, merge_result, completed>>
    /\ UNCHANGED <<selVars, cdnVars, stripVars, segmentVars, resVars, serviceVars>>

\* line 826: download_b_file of the video track; a failed transfer may
\* leave a partial file (download.py 658-673)
DownloadVideo ==
    /\ dl_pc = "video"
    /\ transfers' = Append(transfers, "video")
    /\ \/ /\ video_track' = TRUE
          /\ completed' = completed \cup {"video"}
          /\ dl_pc' = IF result.audioUrl # None THEN "audio" ELSE "single"
       \/ /\ video_track' \in BOOLEAN
          /\ completed' = completed
          /\ dl_pc' = "failed"
    /\ UNCHANGED <<audio_track, merge_result>>
    /\ UNCHANGED <<selVars, cdnVars, stripVars, segmentVars, resVars, serviceVars>>

DownloadAudioFailureIgnored ==
    /\ dl_pc = "audio"
    /\ transfers' = Append(transfers, "audio")
    /\ \/ /\ audio_track' = TRUE
          /\ completed' = completed \cup {"audio"}
       \/ /\ audio_track' \in BOOLEAN
          /\ completed' = completed
    /\ dl_pc' = "merge"
    /\ UNCHANGED <<video_track, merge_result>>
    /\ UNCHANGED <<selVars, cdnVars, stripVars, segmentVars, resVars, serviceVars>>

\* lines 832-837: download_b_file of the audio track
DownloadAudio ==
    /\ dl_pc = "audio"
    /\ transfers' = Append(transfers, "audio")
    /\ \/ /\ audio_track' = TRUE
          /\ completed' = completed \cup {"audio"}
          /\ dl_pc' = "merge"
       \/ /\ audio_track' \in BOOLEAN
          /\ completed' = completed
          /\ dl_pc' = "failed"
    /\ UNCHANGED <<video_track, merge_result>>
    /\ UNCHANGED <<selVars, cdnVars, stripVars, segmentVars, resVars, serviceVars>>

\* lines 840-847 with merge_file_to_mp4(..., should_delete=True); an
\* exception leaves through the handler of lines 891-895, past the removal
\* of the temp directory at lines 879-885
Merge ==
    /\ dl_pc = "merge"
    /\ \E outcome \in MergeOutcomes :
          /\ merge_result' = outcome
          /\ video_track' = merge_file_to_mp4(outcome, TRUE, video_track)
          /\ audio_track' = merge_file_to_mp4(outcome, TRUE, audio_track)
          /\ dl_pc' = IF outcome = "ok" THEN "done" ELSE "failed"
    /\ UNCHANGED <<transfers, completed>>
    /\ UNCHANGED <<selVars, cdnVars, stripVars, segmentVars, resVars, serviceVars>>

\* lines 848-885: a lone video track is converted or moved to the output
\* file, and the temp directory removed
SingleFile ==
    /\ dl_pc = "single"
    /\ video_track' = FALSE
    /\ dl_pc' = "done"
    /\ UNCHANGED <<audio_track, transfers, merge_result, completed>>
    /\ UNCHANGED <<selVars, cdnVars, stripVars, segmentVars, resVars, serviceVars>>

----------------------------------------------------------------------------
(* download.normal_download_b_file *)

\* line 681: 0.1 s between samples, in ms
SampleInterval == 100

\* line 661: int(response.headers.get('content-length', 0))
ContentLength(header) == IF header = None THEN 0 ELSE header[1]

\* lines 672, 676, 681: a sample is computed for a non-empty chunk, when a
\* callback was given and a total is known, once 0.1 s have passed since
\* last_time or when the received bytes have reached the total
SampleDueEarly(chunk, callback, total, elapsed_time, received) ==
    /\ chunk > 0
    /\ callback /\ total > 0
    /\ (elapsed_time >= SampleInterval \div 2 \/ received >= total)

SampleDue(chunk, callback, total, elapsed_time, received) ==
    /\ chunk > 0
    /\ callback /\ total > 0
    /\ (elapsed_time >= SampleInterval \/ received >= total)

\* line 683: bytes per second, (current_len - last_len) / elapsed_time with
\* elapsed_time in seconds; the quotient is kept as the pair of its operands
\* reduced to whole bytes per second
speed(received, since, elapsed_time) ==
    IF elapsed_time > 0 THEN ((received - since) * 1000) \div elapsed_time ELSE 0

\* lines 690-696: the keyword arguments of the callback, progress kept as
\* the pair current/total; at is the reading of the clock the sample used
Sample(received, total, since, elapsed_time, at) ==
    [current |-> received, total |-> total,
     speed |-> speed(received, since, elapsed_time), at |-> at]

\* lines 698-699: last_len after a chunk
LastLenStale(due, received, since) == since

LastLenAfter(due, received, since) == IF due THEN received ELSE since

\* lines 701-704: the 'totalLen' entry of the returned dictionary
TotalLenReturned(total, received) == total

xferRest == <<selVars, cdnVars, stripVars, segmentVars, downloadVars,
              estVars, fnvalVars, scanVars, qrVars>>

\* lines 658-667: the request, raise_for_status, the header and the
\* initial values
OpenResponse ==
    /\ xfer_pc = "open"
    /\ \E outcome \in {"ok", "raise"} :
         IF outcome = "ok"
         THEN /\ xfer_pc' = "stream"
              /\ start_time' = now
              /\ last_time' = now
              /\ last_len' = 0
              /\ current_len' = 0
         ELSE /\ xfer_pc' = "raised"
              /\ UNCHANGED <<start_time, last_time, last_len, current_len>>
    /\ UNCHANGED <<total_len, progress_callback, body, chunk_no, now, samples, xfer_return>>
    /\ UNCHANGED xferRest

\* lines 671-699: one iteration of the loop over iter_content; the clock
\* has moved by step since the iteration before
ReceiveChunk ==
    /\ xfer_pc = "stream"
    /\ chunk_no < Len(body)
    /\ \E step \in {0 - 50, 0, 50, 100} :
         LET chunk    == body[chunk_no + 1]
             received == current_len + chunk
             current_time == now + step
             elapsed_time == current_time - last_time
             due == SampleDue(chunk, progress_callback, total_len, elapsed_time, received)
         IN  /\ now' = current_time
             /\ chunk_no' = chunk_no + 1
             /\ current_len' = received
             /\ samples' = IF due
                           THEN Append(samples, Sample(received, total_len, last_len,
                                                       elapsed_time, current_time))
                           ELSE samples
             /\ last_time' = IF due THEN current_time ELSE last_time
             /\ last_len' = LastLenAfter(due, received, last_len)
    /\ UNCHANGED <<total_len, progress_callback, body, start_time, xfer_pc, xfer_return>>
    /\ UNCHANGED xferRest

\* line 671: the connection breaks while the body is read
StreamRaises ==
    /\ xfer_pc = "stream"
    /\ chunk_no < Len(body)
    /\ xfer_pc' = "raised"
    /\ UNCHANGED <<total_len, progress_callback, body, chunk_no, now, start_time,
                   current_len, last_time, last_len, samples, xfer_return>>
    /\ UNCHANGED xferRest

\* lines 701-704
ReturnTransfer ==
    /\ xfer_pc = "stream"
    /\ chunk_no = Len(body)
    /\ xfer_pc' = "done"
    /\ xfer_return' = Some(TotalLenReturned(total_len, current_len))
    /\ UNCHANGED <<total_len, progress_callback, body, chunk_no, now, start_time,
                   current_len, last_time, last_len, samples>>
    /\ UNCHANGED xferRest

----------------------------------------------------------------------------
(* download.estimate_size applied to two argument lists *)

estRest == <<selVars, cdnVars, stripVars, segmentVars, downloadVars,
             xferVars, fnvalVars, scanVars, qrVars>>

\* lines 502-510 on est_args[1] and on est_args[2]
Estimate ==
    /\ est_args # <<>> /\ est_sizes = None
    /\ est_sizes' = Some([i \in 1..2 |->
                            estimate_size(est_args[i].stream, est_args[i].audio_stream,
                                          est_args[i].timelength)])
    /\ UNCHANGED est_args
    /\ UNCHANGED estRest

----------------------------------------------------------------------------
(* download.calculate_fnval *)

\* Python's | on non-negative integers
RECURSIVE BitOr(_, _)
BitOr(a, b) ==
    IF a = 0 THEN b
    ELSE IF b = 0 THEN a
    ELSE (IF a % 2 = 1 \/ b % 2 = 1 THEN 1 ELSE 0) + 2 * BitOr(a \div 2, b \div 2)

\* lines 79-80
base_dash == 16
av1_codec == 2048

calculate_fnval_without_hdr(qn_arg, smart) ==
    LET fnval == BitOr(base_dash, av1_codec)
    IN  IF smart
        THEN [fnval |-> BitOr(BitOr(BitOr(BitOr(fnval, 1024), 128), 64), 512), fourk |-> 1]
        ELSE IF qn_arg = 127 THEN [fnval |-> BitOr(fnval, 1024), fourk |-> 1]
        ELSE IF qn_arg = 126 THEN [fnval |-> BitOr(fnval, 512), fourk |-> 1]
        ELSE IF qn_arg = 120 THEN [fnval |-> BitOr(fnval, 128), fourk |-> 1]
        ELSE [fnval |-> fnval, fourk |-> 0]

\* lines 74-104, for a qn that int() leaves as it is
calculate_fnval(qn_arg, smart) ==
    LET fnval == BitOr(base_dash, av1_codec)
    IN  IF smart
        THEN [fnval |-> BitOr(BitOr(BitOr(BitOr(fnval, 1024), 128), 64), 512), fourk |-> 1]
        ELSE IF qn_arg = 127 THEN [fnval |-> BitOr(fnval, 1024), fourk |-> 1]
        ELSE IF qn_arg = 126 THEN [fnval |-> BitOr(fnval, 512), fourk |-> 1]
        ELSE IF qn_arg = 125 THEN [fnval |-> BitOr(fnval, 64), fourk |-> 1]
        ELSE IF qn_arg = 120 THEN [fnval |-> BitOr(fnval, 128), fourk |-> 1]
        ELSE [fnval |-> fnval, fourk |-> 0]

fnvalRest == <<selVars, cdnVars, stripVars, segmentVars, downloadVars,
               xferVars, estVars, scanVars, qrVars>>

\* one call of calculate_fnval
CalculateFnval ==
    /\ fn_result = None
    /\ fn_result' = Some(calculate_fnval(fn_qn, fn_smart))
    /\ UNCHANGED <<fn_qn, fn_smart>>
    /\ UNCHANGED fnvalRest

----------------------------------------------------------------------------
(* download.get_scan_code_data *)

\* line 778
max_attempts == 3

\* line 781: the loop goes on
LoopContinuesOnceMore(c, attempts) == c # 0 /\ attempts <= max_attempts

LoopContinues(c, attempts) == c # 0 /\ attempts < max_attempts

\* lines 798-802: the value of the first cookie named SESSDATA, '' without one
SessData(cookies) ==
    LET cookie == FirstWhere(cookies, [k \in 1..Len(cookies) |-> cookies[k].name = "SESSDATA"])
    IN  IF cookie = None THEN "" ELSE cookie[1].value

\* Set-Cookie headers a poll answer can carry (none, another cookie only,
\* SESSDATA after another cookie, SESSDATA twice)
SetCookieHeaders ==
    { <<>>,
      <<[name |-> "sid", value |-> "x"]>>,
      <<[name |-> "sid", value |-> "x"], [name |-> "SESSDATA", value |-> "abc"]>>,
      <<[name |-> "SESSDATA", value |-> "abc"], [name |-> "SESSDATA", value |-> "def"]>> }

scanRest == <<selVars, cdnVars, stripVars, segmentVars, downloadVars,
              xferVars, estVars, fnvalVars, qrVars>>

\* lines 761-771: the generate request and the QR image; any exception
\* goes to line 809
Generate ==
    /\ scan_pc = "generate"
    /\ \E outcome \in {"ok", "request raises", "image raises"} :
         /\ scan_events' =
              IF outcome = "ok" THEN scan_events \o <<"generate", "qrcode">>
              ELSE Append(scan_events, "generate")
         /\ IF outcome = "ok"
            THEN scan_pc' = "hook" /\ scan_result' = scan_result
            ELSE scan_pc' = "done" /\ scan_result' = Some("")
    /\ UNCHANGED <<hook, attempt_count, code, set_cookie>>
    /\ UNCHANGED scanRest

\* lines 773-779: the hook, if one was passed, then the loop variables; an
\* exception in the hook goes to line 809
CallHook ==
    /\ scan_pc = "hook"
    /\ \/ /\ scan_events' = IF hook THEN Append(scan_events, "hook") ELSE scan_events
          /\ code' = 1 /\ attempt_count' = 0
          /\ scan_pc' = IF LoopContinues(1, 0) THEN "poll" ELSE "return"
          /\ scan_result' = scan_result
       \/ /\ hook
          /\ scan_events' = Append(scan_events, "hook")
          /\ scan_pc' = "done" /\ scan_result' = Some("")
          /\ UNCHANGED <<code, attempt_count>>
    /\ UNCHANGED <<hook, set_cookie>>
    /\ UNCHANGED scanRest

\* lines 782-788: one poll request
Poll ==
    /\ scan_pc = "poll"
    /\ scan_events' = Append(scan_events, "poll")
    /\ \/ \E c \in {0, 86101}, h \in SetCookieHeaders :
            /\ code' = c /\ set_cookie' = h
            /\ scan_pc' = IF c = 0 THEN "return" ELSE "sleep"
            /\ scan_result' = scan_result
       \/ /\ scan_pc' = "done" /\ scan_result' = Some("")
          /\ UNCHANGED <<code, set_cookie>>
    /\ UNCHANGED <<hook, attempt_count>>
    /\ UNCHANGED scanRest

\* lines 790-791 and the loop condition of line 781
Sleep ==
    /\ scan_pc = "sleep"
    /\ attempt_count' = attempt_count + 1
    /\ scan_pc' = IF LoopContinues(code, attempt_count + 1) THEN "poll" ELSE "return"
    /\ UNCHANGED <<hook, scan_events, code, set_cookie, scan_result>>
    /\ UNCHANGED scanRest

\* lines 793-808
ReturnScan ==
    /\ scan_pc = "return"
    /\ scan_result' = IF code # 0 THEN Some("") ELSE Some(SessData(set_cookie))
    /\ scan_pc' = "done"
    /\ UNCHANGED <<hook, scan_events, attempt_count, code, set_cookie>>
    /\ UNCHANGED scanRest

----------------------------------------------------------------------------
(* gui QRLoginDialog and QRLoginThread *)

\* QThread.isRunning(): true from start() until run() has returned and the
\* thread has finished
isRunning(thread) == thread.pc # "finished"

\* the test of line 952 left out
RefreshReturnsNever(current, all) == FALSE

\* line 952: self.qr_thread and self.qr_thread.isRunning()
RefreshReturns(current, all) == current # 0 /\ isRunning(all[current])

\* lines 1013-1016: the signal run() emits for the result of
\* get_scan_code_data
LoginSignal(sessdata) == IF sessdata # "" THEN "login_success" ELSE "login_failed"

qrRest == <<selVars, cdnVars, stripVars, segmentVars, downloadVars,
            xferVars, estVars, fnvalVars, scanVars>>

\* refresh_qr (lines 950-962), called by initUI (line 948) and by the
\* refresh button
refresh_qr ==
    /\ refresh_requests < MaxRefresh
    /\ refresh_requests' = refresh_requests + 1
    /\ IF RefreshReturns(qr_thread, threads)
       THEN UNCHANGED <<threads, qr_thread>>
       ELSE /\ threads' = Append(threads, [pc |-> "scan", signals |-> <<>>])
            /\ qr_thread' = Len(threads) + 1
    /\ UNCHANGED qrRest

\* the hook of lines 1005-1006, called by get_scan_code_data once the QR
\* image exists
EmitQrReady(i) ==
    /\ threads[i].pc = "scan"
    /\ "qr_ready" \notin SeqSet(threads[i].signals)
    /\ threads' = [threads EXCEPT ![i].signals = Append(@, "qr_ready")]
    /\ UNCHANGED <<qr_thread, refresh_requests>>
    /\ UNCHANGED qrRest

\* lines 1008-1018: get_scan_code_data has returned; login_success or
\* login_failed for its result, login_failed from the handler when the
\* emit of login_success raises
EmitResult(i) ==
    /\ threads[i].pc = "scan"
    /\ \E sessdata \in {"", "abc"}, emit_raises \in BOOLEAN :
         LET signal == IF emit_raises THEN "login_failed" ELSE LoginSignal(sessdata)
         IN  threads' = [threads EXCEPT ![i] =
                            [pc |-> "emitted", signals |-> Append(@.signals, signal)]]
    /\ UNCHANGED <<qr_thread, refresh_requests>>
    /\ UNCHANGED qrRest

\* run() has returned and the thread ends
FinishThread(i) ==
    /\ threads[i].pc = "emitted"
    /\ threads' = [threads EXCEPT ![i].pc = "finished"]
    /\ UNCHANGED <<qr_thread, refresh_requests>>
    /\ UNCHANGED qrRest

----------------------------------------------------------------------------
(* Input domains *)

OfferedHeights == {480, 1080}
Bandwidths     == {20000, 40000}
QualityCodes   == {64, 80, 120, 0}
SizeLimits     == {1, 2}

\* every video descriptor of the manifest carries height, bandwidth and
\* codecs; duration 0 stands for an absent duration field
VideoDescriptors(codecStrings) ==
    [height : OfferedHeights, bandwidth : Bandwidths, codecs : codecStrings,
     duration : {0}, baseUrl : {PrimaryUrl}, backupUrl : {<<BackupUrl>>}]

AudioDescriptor(dur) ==
    [bandwidth |-> 10000, duration |-> dur, baseUrl |-> BackupUrl, backupUrl |-> <<>>]

\* where the duration comes from: hint (s), manifest field (ms), embedded in
\* the video descriptors (s), embedded in the audio descriptor (s)
DurationCases ==
    { [hint |-> 0,   field |-> 0,      vdur |-> 0,   audio |-> <<>>],
      [hint |-> 0,   field |-> 0,      vdur |-> 0,   audio |-> <<AudioDescriptor(0)>>],
      [hint |-> 500, field |-> 0,      vdur |-> 0,   audio |-> <<AudioDescriptor(0)>>],
      [hint |-> 0,   field |-> 300000, vdur |-> 0,   audio |-> <<>>],
      [hint |-> 0,   field |-> 0,      vdur |-> 200, audio |-> <<AudioDescriptor(0)>>],
      [hint |-> 0,   field |-> 0,      vdur |-> 0,   audio |-> <<AudioDescriptor(100)>>] }

CdnIdle ==
    base_url = "" /\ backup_urls = <<>> /\ cdn_pc = "idle" /\ selected_url = None

StripIdle ==
    input_file = <<>> /\ in_pos = 0 /\ out_f = <<>> /\ strip_pc = "idle"

PairIdle ==
    /\ file1 = <<>> /\ file2 = <<>> /\ file_names = <<>>
    /\ thread_pc = [t \in {1, 2} |-> "new"] /\ thread_pos = [t \in {1, 2} |-> 0]
    /\ temp_file = [n \in M4sNames |-> None] /\ pair_pc = "idle"
    /\ size1 = 0 /\ size2 = 0 /\ video_file = 0 /\ audio_file = 0
    /\ pair_result = "none"

BatchIdle ==
    /\ caller = "idle" /\ sub_dirs = <<>> /\ batch_pc = "idle"
    /\ file_pairs = None /\ outcomes = <<>>

SegmentIdle == PairIdle /\ BatchIdle

ResIdle ==
    /\ locator_kind = "unknown" /\ p_param = None /\ parts = <<>> /\ cid = None
    /\ calls = <<>> /\ stream_cid = None /\ manifest = NoManifest /\ res_pc = "idle"

GuiIdle ==
    /\ dl_pc = "idle" /\ video_track = FALSE /\ audio_track = FALSE
    /\ transfers = <<>> /\ merge_result = "none" /\ completed = {}

DownloadIdle == ResIdle /\ GuiIdle

XferIdle ==
    /\ total_len = 0 /\ progress_callback = FALSE /\ body = <<>> /\ chunk_no = 0
    /\ now = 0 /\ start_time = 0 /\ current_len = 0 /\ last_time = 0 /\ last_len = 0
    /\ samples = <<>> /\ xfer_pc = "idle" /\ xfer_return = None

EstIdle == est_args = <<>> /\ est_sizes = None

FnvalIdle == fn_qn = 0 /\ fn_smart = FALSE /\ fn_result = None

ScanIdle ==
    /\ hook = FALSE /\ scan_pc = "idle" /\ scan_events = <<>> /\ attempt_count = 0
    /\ code = 1 /\ set_cookie = <<>> /\ scan_result = None

QrIdle == threads = <<>> /\ qr_thread = 0 /\ refresh_requests = 0

ServiceIdle == XferIdle /\ EstIdle /\ FnvalIdle /\ ScanIdle /\ QrIdle

SelIdle ==
    /\ video = <<>> /\ audio = <<>> /\ qn = 0 /\ duration = 0
    /\ smart_resolution = FALSE /\ file_size_limit = 0 /\ preferred_codec = "auto"
    /\ is_bangumi = FALSE /\ stream_timelength = 0 /\ pc = "idle"
    /\ matching_videos = <<>> /\ sorted_videos = <<>> /\ timelength = 0
    /\ video_data = None /\ result = [videoUrl |-> None, audioUrl |-> None]

InitSelection(codecStrings, prefs, smarts, bangumis, quals, limits, cases) ==
    /\ \E vs \in SeqsOf(VideoDescriptors(codecStrings), 0, MaxVideos), c \in cases :
          /\ video = [i \in 1..Len(vs) |-> [vs[i] EXCEPT !.duration = c.vdur]]
          /\ audio = c.audio
          /\ duration = c.hint
          /\ stream_timelength = c.field
    /\ qn \in quals
    /\ smart_resolution \in smarts
    /\ file_size_limit \in limits
    /\ preferred_codec \in prefs
    /\ is_bangumi \in bangumis
    /\ pc = "start"
    /\ matching_videos = <<>> /\ sorted_videos = <<>> /\ timelength = 0
    /\ video_data = None /\ result = [videoUrl |-> None, audioUrl |-> None]
    /\ CdnIdle /\ StripIdle /\ SegmentIdle /\ DownloadIdle /\ ServiceIdle

----------------------------------------------------------------------------
(* Specifications *)

\* get_download_url over manifests of two codecs
Init ==
    InitSelection({"av01.0", "avc1.64"}, {"auto", "avc"}, BOOLEAN, BOOLEAN,
                  QualityCodes, SizeLimits, DurationCases)
Next == GetDownloadUrl
Spec == Init /\ [][Next]_vars

\* get_download_url over every codec class and every codec preference
InitCodec ==
    InitSelection({"av01.0", "hev1.1", "AVC1.64", "vp09.0"},
                  {"auto", "av1", "hevc", "avc"}, {FALSE}, {FALSE}, {80}, {2},
                  {[hint |-> 500, field |-> 0, vdur |-> 0, audio |-> <<AudioDescriptor(0)>>]})
NextCodec == GetDownloadUrl
SpecCodec == InitCodec /\ [][NextCodec]_vars

InitCdn ==
    /\ base_url \in Urls
    /\ backup_urls \in SeqsOf(Urls, 0, MaxBackups)
    /\ cdn_pc = "start"
    /\ selected_url = None
    /\ SelIdle /\ StripIdle /\ SegmentIdle /\ DownloadIdle /\ ServiceIdle
NextCdn == SelectUrl
SpecCdn == InitCdn /\ [][NextCdn]_vars

Bytes == {0, 1, 2}

InitStrip ==
    /\ input_file \in SeqsOf(Bytes, 0, MaxFileLen)
    /\ in_pos = 0
    /\ out_f = <<>>
    /\ strip_pc = "phase1"
    /\ SelIdle /\ CdnIdle /\ SegmentIdle /\ DownloadIdle /\ ServiceIdle
NextStrip == StripPhase1 \/ StripPhase2
SpecStrip == InitStrip /\ [][NextStrip]_vars

\* process_file_pair on every pair of short files, in either order of the
\* two names glob found in the sub-directory; the temp directory is empty
\* when the call starts
PairBytes == {0, 1}

InitPair ==
    /\ file1 \in SeqsOf(PairBytes, 0, MaxFileLen)
    /\ file2 \in SeqsOf(PairBytes, 0, MaxFileLen)
    /\ file_names \in {<<"video.m4s", "audio.m4s">>, <<"audio.m4s", "video.m4s">>}
    /\ thread_pc = [t \in {1, 2} |-> "new"] /\ thread_pos = [t \in {1, 2} |-> 0]
    /\ temp_file = [n \in M4sNames |-> None] /\ pair_pc = "start1"
    /\ size1 = 0 /\ size2 = 0 /\ video_file = 0 /\ audio_file = 0
    /\ pair_result = "none"
    /\ SelIdle /\ CdnIdle /\ StripIdle /\ BatchIdle /\ DownloadIdle /\ ServiceIdle
NextPair ==
    \/ StartThread1 \/ StartThread2
    \/ \E t \in {1, 2} : ThreadOpen(t) \/ ThreadChunk(t)
    \/ JoinThread1 \/ JoinThread2 \/ Classify \/ Remux
SpecPair == InitPair /\ [][NextPair]_vars

\* a batch run over every short list of sub-directories holding zero to
\* three *.m4s files
FileCounts == {0, 1, 2, 3}

InitBatch ==
    /\ caller \in {"gui", "main"}
    /\ sub_dirs \in SeqsOf(FileCounts, 0, MaxDirs)
    /\ batch_pc = "find"
    /\ file_pairs = None
    /\ outcomes = <<>>
    /\ SelIdle /\ CdnIdle /\ StripIdle /\ PairIdle /\ DownloadIdle /\ ServiceIdle
NextBatch == FindPairs \/ ProcessPair \/ FinishBatch
SpecBatch == InitBatch /\ [][NextBatch]_vars

\* get_download_url called on every kind of locator, page number and part
\* count; the manifest's DASH lists are small
PageParams == {None} \cup {Some(p) : p \in -1..(MaxParts + 1)}
PartCids(n) == [i \in 1..n |-> 100 + i]

InitResolution(smarts, limits, start) ==
    /\ locator_kind \in {"series", "av", "bv", "unknown"}
    /\ p_param \in (IF locator_kind \in {"av", "bv"} THEN PageParams ELSE {None})
    /\ parts \in {PartCids(n) : n \in 1..MaxParts}
    /\ cid = None /\ calls = <<>> /\ stream_cid = None /\ manifest = NoManifest
    /\ res_pc = start
    /\ video \in SeqsOf(VideoDescriptors({"avc1.64"}), 0, 1)
    /\ audio \in {<<>>, <<AudioDescriptor(0)>>}
    /\ qn \in {64, 80}
    /\ duration \in {0, 500}
    /\ smart_resolution \in smarts
    /\ file_size_limit \in limits
    /\ preferred_codec = "auto"
    /\ is_bangumi = (locator_kind = "series")
    /\ stream_timelength = 0
    /\ pc = "idle"
    /\ matching_videos = <<>> /\ sorted_videos = <<>> /\ timelength = 0
    /\ video_data = None /\ result = [videoUrl |-> None, audioUrl |-> None]
    /\ CdnIdle /\ StripIdle /\ SegmentIdle /\ ServiceIdle

InitResolve == InitResolution(BOOLEAN, {2}, "parse") /\ GuiIdle
NextResolve ==
    \/ ParseLocator \/ EpInfoLookup \/ VideoInfoLookup \/ PageCidLookup
    \/ FetchCid \/ RequestStream \/ RequestBangumiStream \/ GetDownloadUrl
SpecResolve == InitResolve /\ [][NextResolve]_vars

\* start_download: the gui passes smart_resolution=False, file_size_limit=100
\* and preferred_codec='auto' (gui.py lines 762-764); the temp directory
\* holds no track file yet
InitDownload ==
    /\ InitResolution({FALSE}, {100}, "idle")
    /\ dl_pc = "info" /\ video_track = FALSE /\ audio_track = FALSE
    /\ transfers = <<>> /\ merge_result = "none" /\ completed = {}
NextDownload ==
    \/ GetInfo \/ NextResolve \/ CheckUrls
    \/ DownloadVideo \/ DownloadAudio \/ Merge \/ SingleFile
SpecDownload == InitDownload /\ [][NextDownload]_vars

\* one transfer: any body of at most MaxChunks chunks (an empty chunk
\* included), with or without a content-length header, with or without a
\* callback
Bodies == UNION {[1..n -> 0..MaxChunkLen] : n \in 0..MaxChunks}
InitTransfer ==
    /\ \E header \in {None} \cup {Some(n) : n \in 1..MaxTotalLen} :
         total_len = ContentLength(header)
    /\ progress_callback \in BOOLEAN
    /\ body \in Bodies
    /\ chunk_no = 0 /\ now = 200 /\ start_time = 0 /\ current_len = 0
    /\ last_time = 0 /\ last_len = 0
    /\ samples = <<>> /\ xfer_pc = "open" /\ xfer_return = None
    /\ SelIdle /\ CdnIdle /\ StripIdle /\ SegmentIdle /\ DownloadIdle
    /\ EstIdle /\ FnvalIdle /\ ScanIdle /\ QrIdle
NextTransfer == OpenResponse \/ ReceiveChunk \/ StreamRaises \/ ReturnTransfer
SpecTransfer == InitTransfer /\ [][NextTransfer]_vars

\* every pair of argument lists: descriptors with and without an embedded
\* duration, with and without an audio descriptor, timelength 0 (unknown)
\* or whole seconds in ms
EstimateStreams == [bandwidth : {0, 1000, 2000}, duration : {0, 200}]
EstimateAudios  == {None} \cup {Some(a) : a \in [bandwidth : {10000, 20000}, duration : {0, 100}]}
EstimateArgs ==
    [stream : EstimateStreams, audio_stream : EstimateAudios, timelength : {0, 1000, 2000}]
InitEstimate ==
    /\ est_args \in [1..2 -> EstimateArgs]
    /\ est_sizes = None
    /\ SelIdle /\ CdnIdle /\ StripIdle /\ SegmentIdle /\ DownloadIdle
    /\ XferIdle /\ FnvalIdle /\ ScanIdle /\ QrIdle
NextEstimate == Estimate
SpecEstimate == InitEstimate /\ [][NextEstimate]_vars

\* every quality number up to MaxQn, with and without smart mode
InitFnval ==
    /\ fn_qn \in 0..MaxQn /\ fn_smart \in BOOLEAN /\ fn_result = None
    /\ SelIdle /\ CdnIdle /\ StripIdle /\ SegmentIdle /\ DownloadIdle
    /\ XferIdle /\ EstIdle /\ ScanIdle /\ QrIdle
NextFnval == CalculateFnval
SpecFnval == InitFnval /\ [][NextFnval]_vars

\* one call of get_scan_code_data, with or without a hook
InitScan ==
    /\ hook \in BOOLEAN
    /\ scan_pc = "generate" /\ scan_events = <<>> /\ attempt_count = 0
    /\ code = 1 /\ set_cookie = <<>> /\ scan_result = None
    /\ SelIdle /\ CdnIdle /\ StripIdle /\ SegmentIdle /\ DownloadIdle
    /\ XferIdle /\ EstIdle /\ FnvalIdle /\ QrIdle
NextScan == Generate \/ CallHook \/ Poll \/ Sleep \/ ReturnScan
SpecScan == InitScan /\ [][NextScan]_vars

\* a dialog from line 908 on: no thread yet, the first refresh_qr is the
\* one of initUI
InitQr ==
    /\ threads = <<>> /\ qr_thread = 0 /\ refresh_requests = 0
    /\ SelIdle /\ CdnIdle /\ StripIdle /\ SegmentIdle /\ DownloadIdle
    /\ XferIdle /\ EstIdle /\ FnvalIdle /\ ScanIdle
NextQr ==
    \/ refresh_qr
    \/ \E i \in 1..Len(threads) : EmitQrReady(i) \/ EmitResult(i) \/ FinishThread(i)
SpecQr == InitQr /\ [][NextQr]_vars

----------------------------------------------------------------------------
(* Properties of get_download_url *)

Returned == pc = "done"
Target   == target_height(video, qn)
AudioData == IF audio # <<>> THEN Some(audio[1]) ELSE None
Candidates == SeqSet(matching_videos)
Selected == video_data[1]

\* the height the claimed ladder ends at: the target if offered, else the
\* greatest offered height below it, else the lowest offered height
LadderHeight ==
    IF Target \in Heights(video) THEN Target
    ELSE IF \E h \in Heights(video) : h < Target
         THEN Max({h \in Heights(video) : h < Target})
         ELSE Min(Heights(video))

\* sort key of a candidate: codec rank, then bitrate
Key(v) == <<Rank(preferred_codec, v), v.bandwidth>>

\* the estimated size of v is within the file-size limit
Fits(v) == FitsLimit(v, AudioData, timelength, file_size_limit)

\* the combined bitrate of v is within the 300-second ceiling
Qualifies(v) == UnderCeiling(v, AudioData, file_size_limit)

\* C1: in exact-quality mode a non-empty video list never leaves height
\* matching with an empty candidate set (and the call does not raise there).
C1_LadderTotal ==
    (pc \in {"done", "raised"} /\ ~smart_resolution /\ video # <<>>)
        => (pc = "done" /\ matching_videos # <<>>)

\* the forced-upgrade case: every offered height exceeds the target
C1_Witness ==
    /\ Returned /\ ~smart_resolution /\ video # <<>>
    /\ \A h \in Heights(video) : h > Target
    /\ matching_videos # <<>>

\* C2: in exact-quality mode every candidate has the ladder height H and the
\* descriptor finally selected has height H.
C2_SelectedAtLadderHeight ==
    (Returned /\ ~smart_resolution /\ video # <<>>)
        => /\ \A v \in Candidates : v.height = LadderHeight
           /\ video_data # None
           /\ Selected.height = LadderHeight

ExactKnownNormal ==
    Returned /\ ~smart_resolution /\ ~is_bangumi /\ timelength # 0 /\ video # <<>>

FirstFitting ==
    (\E v \in Candidates : Fits(v))
        => /\ video_data # None
           /\ Selected \in Candidates
           /\ Fits(Selected)
           /\ \A w \in Candidates : Fits(w) => LexLeq(Key(Selected), Key(w))

\* C3 as stated: exact quality, known duration, normal title: the first
\* candidate in codec-then-bitrate order that fits; if none fits, the
\* highest-bitrate candidate of the candidate set.
C3_HighestBitrateFallback ==
    ExactKnownNormal
        => /\ FirstFitting
           /\ (\A v \in Candidates : ~Fits(v))
                 => /\ video_data # None
                    /\ Selected \in Candidates
                    /\ \A w \in Candidates : w.bandwidth <= Selected.bandwidth

\* C3 as amended: if none fits, the last candidate of the codec-then-bitrate
\* order, i.e. the highest-bitrate candidate of the worst-ranked codec present.
C3_LastInOrderFallback ==
    ExactKnownNormal
        => /\ FirstFitting
           /\ (\A v \in Candidates : ~Fits(v))
                 => /\ video_data # None
                    /\ Selected \in Candidates
                    /\ \A w \in Candidates : LexLeq(Key(w), Key(Selected))

\* nothing fits and the fallback is not the highest-bitrate candidate
C3_Witness ==
    /\ ExactKnownNormal
    /\ \A v \in Candidates : ~Fits(v)
    /\ \E w \in Candidates : w.bandwidth > Selected.bandwidth

\* C4: no duration known, not a licensed series: the first candidate in
\* codec-then-bitrate order under the bitrate ceiling; if none is under it,
\* the lowest-bitrate candidate; never empty.
C4_CeilingThenLowest ==
    (Returned /\ timelength = 0 /\ ~is_bangumi /\ video # <<>>)
        => /\ video_data # None
           /\ Selected \in Candidates
           /\ (\E v \in Candidates : Qualifies(v))
                 => /\ Qualifies(Selected)
                    /\ \A w \in Candidates : Qualifies(w) => LexLeq(Key(Selected), Key(w))
           /\ (\A v \in Candidates : ~Qualifies(v))
                 => \A w \in Candidates : Selected.bandwidth <= w.bandwidth

\* a is visited before b by the smart walk: greater height, then better
\* codec rank, then greater bitrate
SmartBefore(a, b) ==
    \/ a.height > b.height
    \/ /\ a.height = b.height
       /\ LexLess(<<Rank(preferred_codec, a), 0 - a.bandwidth>>,
                  <<Rank(preferred_codec, b), 0 - b.bandwidth>>)

SmartRule ==
    /\ video_data # None
    /\ Selected \in SeqSet(video)
    /\ (\E v \in SeqSet(video) : Fits(v))
          => /\ Fits(Selected)
             /\ \A w \in SeqSet(video) : Fits(w) => ~SmartBefore(w, Selected)
    /\ (\A v \in SeqSet(video) : ~Fits(v))
          => /\ Selected.height = Min(Heights(video))
             /\ \A w \in SeqSet(video) :
                    w.height = Selected.height => Selected.bandwidth <= w.bandwidth

\* C5 as stated: smart mode with known duration follows the smart walk.
C5_SmartWalkAnyTitle ==
    (Returned /\ smart_resolution /\ timelength # 0 /\ video # <<>>) => SmartRule

\* C5 as amended: smart mode with known duration on a title that is not a
\* licensed series follows the smart walk.
C5_SmartWalkNormalTitle ==
    (Returned /\ smart_resolution /\ ~is_bangumi /\ timelength # 0 /\ video # <<>>)
        => SmartRule

\* the best height does not fit and the walk settles on a lower one
C5_Witness ==
    /\ Returned /\ smart_resolution /\ ~is_bangumi /\ timelength # 0 /\ video # <<>>
    /\ video_data # None
    /\ Fits(Selected)
    /\ Selected.height < Max(Heights(video))

\* C6: for a licensed series the pick is the best-codec, lowest-bitrate
\* descriptor at the target height or, when that is not offered, at the
\* height of the degrade-then-upgrade ladder, whatever the size limit.
C6_SeriesAtLadderHeight ==
    (Returned /\ is_bangumi /\ video # <<>>)
        => /\ video_data # None
           /\ Selected \in SeqSet(video)
           /\ Selected.height = LadderHeight
           /\ \A w \in SeqSet(video) :
                  w.height = LadderHeight => LexLeq(Key(Selected), Key(w))

----------------------------------------------------------------------------
(* Properties of the codec ranking *)

CodecTypes == {"av1", "hevc", "avc", "unknown"}

\* position in the default order av1, hevc, avc
DefaultOrder(t) == CASE t = "av1" -> 1 [] t = "hevc" -> 2 [] t = "avc" -> 3

\* a ranks strictly before b as the claim orders them: unknown after every
\* known codec, the preferred codec first, the rest in default order
ClaimedBefore(pref, a, b) ==
    /\ a # b
    /\ a # "unknown"
    /\ \/ b = "unknown"
       \/ a = pref
       \/ b # pref /\ DefaultOrder(a) < DefaultOrder(b)

\* C7: for the caller's preferred codec the ranking puts the preferred codec
\* first, the other known codecs in default order and unknown strictly last,
\* and the sorted candidates follow it.
C7_CodecRanking ==
    /\ \A a, b \in CodecTypes :
          ClaimedBefore(preferred_codec, a, b)
              <=> codec_priority(preferred_codec, a) < codec_priority(preferred_codec, b)
    /\ Returned =>
          \A i, j \in 1..Len(sorted_videos) :
              i < j => ~ClaimedBefore(preferred_codec, CodecType(sorted_videos[j]),
                                                       CodecType(sorted_videos[i]))

\* an hevc preference moved an hevc candidate in front of an av1 one
C7_Witness ==
    /\ Returned /\ preferred_codec = "hevc"
    /\ Len(matching_videos) = 2 /\ Len(sorted_videos) = 2
    /\ CodecType(matching_videos[1]) = "av1" /\ CodecType(matching_videos[2]) = "hevc"
    /\ CodecType(sorted_videos[1]) = "hevc" /\ CodecType(sorted_videos[2]) = "av1"

----------------------------------------------------------------------------
(* Properties of select_and_avoid_mcdn_url *)

HostMatches(url) == SlowCdnTable[url]

CleanBackups == {i \in 1..Len(backup_urls) : ~HostMatches(backup_urls[i])}

\* C8: the primary URL when its host matches no slow-CDN pattern; else the
\* first backup whose host matches none; else the primary URL.
C8_AvoidSlowCdn ==
    cdn_pc = "done" =>
        selected_url =
            IF ~HostMatches(base_url) THEN Some(base_url)
            ELSE IF CleanBackups # {} THEN Some(backup_urls[Min(CleanBackups)])
            ELSE Some(base_url)

\* a slow primary, a slow first backup and a clean second one
C8_Witness ==
    /\ cdn_pc = "done"
    /\ HostMatches(base_url)
    /\ Len(backup_urls) = 2
    /\ HostMatches(backup_urls[1]) /\ ~HostMatches(backup_urls[2])
    /\ selected_url = Some(backup_urls[2])

----------------------------------------------------------------------------
(* Properties of remove_leading_zeros *)

NonZeroAt == {i \in 1..Len(input_file) : input_file[i] # 0}

\* C9: the output is exactly the input from its first non-zero byte on.
C9_SuffixFromFirstNonZero ==
    (strip_pc = "done" /\ NonZeroAt # {})
        => out_f = SubSeq(input_file, Min(NonZeroAt), Len(input_file))

\* C10: an input whose first byte is non-zero is copied unchanged.
C10_NoLeadingZeroUnchanged ==
    (strip_pc = "done" /\ input_file # <<>> /\ input_file[1] # 0)
        => out_f = input_file

\* C11: an input made of zero bytes only (the empty file included) gives an
\* empty output file.
C11_AllZeroGivesEmpty ==
    (strip_pc = "done" /\ NonZeroAt = {}) => out_f = <<>>

----------------------------------------------------------------------------
(* Properties of process_file_pair *)

\* C12: when the two stripped files differ in size, the larger one is
\* ffmpeg's video input and the smaller one its audio input, whichever of
\* the two was given as file1.
C12_LargerIsVideo ==
    (pair_pc = "remux" /\ StatSize(temp_file[TempPath(1)]) # StatSize(temp_file[TempPath(2)]))
        => /\ {video_file, audio_file} = {1, 2}
           /\ StatSize(temp_file[TempPath(video_file)])
                > StatSize(temp_file[TempPath(audio_file)])

C12_Witness ==
    /\ pair_pc = "remux"
    /\ StatSize(temp_file[TempPath(1)]) < StatSize(temp_file[TempPath(2)])
    /\ video_file = 2 /\ audio_file = 1

----------------------------------------------------------------------------
(* Properties of the batch run *)

BatchEnded == batch_pc \in {"done", "failed"}

ValidDirs == {i \in 1..Len(sub_dirs) : sub_dirs[i] = 2}

FoundDirs == IF file_pairs = None THEN {} ELSE SeqSet(file_pairs[1])

CalledDirs ==
    IF file_pairs = None THEN {} ELSE {file_pairs[1][k] : k \in 1..Len(outcomes)}

\* C13: in a batch with one sub-directory that does not hold two *.m4s
\* files and other sub-directories that do, the pairs of the other
\* sub-directories are found and handed to process_file_pair.
C13_BadDirectoryNotFatal ==
    (/\ BatchEnded
     /\ Cardinality({i \in 1..Len(sub_dirs) : sub_dirs[i] # 2}) = 1
     /\ ValidDirs # {})
        => ValidDirs \subseteq FoundDirs /\ ValidDirs \subseteq CalledDirs

----------------------------------------------------------------------------
(* Properties of get_download_url: manifests without streams, resolution *)

\* C16: with an empty video list get_download_url ends in the no-stream
\* outcome (a result without video URL) for every quality level, in smart
\* and in exact-quality mode, and fails with no other error.
C16_EmptyListNoStream ==
    (video = <<>> /\ pc \in {"done", "raised"})
        => pc = "done" /\ result.videoUrl = None

\* C17: for a non-empty video list the selection returns a descriptor of
\* the list and never raises.
C17_NonEmptyListSelects ==
    (video # <<>> /\ pc \in {"done", "raised"})
        => pc = "done" /\ video_data # None /\ Selected \in SeqSet(video)

C17_Witness ==
    /\ pc = "done" /\ video # <<>> /\ ~smart_resolution
    /\ WithHeight(video, Target) = <<>>
    /\ \A i \in 1..Len(video) : video[i].height > Target
    /\ video_data # None /\ Selected \in SeqSet(video)

ResolutionReturned == res_pc = "done" \/ (res_pc = "select" /\ pc = "done")
ResolutionRaised == res_pc = "raised" \/ (res_pc = "select" /\ pc = "raised")
ResolutionEnded == ResolutionReturned \/ ResolutionRaised

StreamAnswered ==
    \E i \in 1..Len(calls) : calls[i] = Call("stream", "ok")

\* C15: a series stream response of the durl shape without durl entries
\* makes get_download_url raise instead of returning a result.
C15_EmptyDurlRaises ==
    (/\ locator_kind = "series" /\ StreamAnswered /\ ResolutionEnded
     /\ ~manifest.dash /\ manifest.durl = 0)
        => ResolutionRaised

MetadataApis == {"ep_info", "view", "pagelist"}

FailedLookup(i) == calls[i].api \in MetadataApis /\ calls[i].status # "ok"

\* C18: a locator that matches no pattern, and a metadata lookup that fails
\* or reports a non-success status, abort the resolution: no stream request
\* is issued afterwards and the call ends by raising.
C18_NoStreamAfterFailedLookup ==
    /\ (locator_kind = "unknown" /\ res_pc # "parse")
          => res_pc = "raised" /\ calls = <<>>
    /\ \A i \in 1..Len(calls) : FailedLookup(i)
          => /\ \A j \in (i + 1)..Len(calls) : calls[j].api # "stream"
             /\ ResolutionEnded => ResolutionRaised

\* the part the page number names, the first part when the page number is
\* absent or out of range
ClaimedPartCid ==
    IF p_param # None /\ p_param[1] >= 1 /\ p_param[1] <= Len(parts)
    THEN parts[p_param[1]]
    ELSE parts[1]

\* C19: the cid put into the stream request of an av or BV locator is the
\* cid of part p when 1 <= p <= n and the cid of the first part otherwise.
C19_PartCid ==
    (locator_kind \in {"av", "bv"} /\ stream_cid # None)
        => stream_cid = Some(ClaimedPartCid)

\* the same statement restricted to the runs in which every metadata
\* lookup succeeded
PartCidWhenLookupsSucceed ==
    (/\ locator_kind \in {"av", "bv"} /\ stream_cid # None
     /\ \A i \in 1..Len(calls) : ~FailedLookup(i))
        => stream_cid = Some(ClaimedPartCid)

----------------------------------------------------------------------------
(* Properties of the assembly and of start_download *)

\* process_file_pair: once ffmpeg has ended, both temp files are gone
PairTempFilesDeleted ==
    pair_result # "none" => temp_file = [n \in M4sNames |-> None]

\* C14: once an assembly of two track files has been attempted, both
\* temporary track files are deleted, whether it succeeded or failed, in
\* process_file_pair and in merge_file_to_mp4 with should_delete true.
C14_TempFilesDeleted ==
    /\ PairTempFilesDeleted
    /\ merge_result # "none" => ~video_track /\ ~audio_track

\* C20: when get_download_url raises or returns no video URL,
\* start_download starts no track download and no assembly.
C20_NoTransferAfterFailedResolution ==
    (/\ dl_pc # "idle"
     /\ \/ ResolutionRaised
        \/ ResolutionReturned /\ result.videoUrl = None)
        => /\ transfers = <<>> /\ merge_result = "none"
           /\ dl_pc \in {"resolving", "failed"}

C20_Witness ==
    /\ dl_pc = "failed"
    /\ ResolutionReturned /\ result.videoUrl = None
    /\ transfers = <<>> /\ merge_result = "none"

----------------------------------------------------------------------------
(* Properties of normal_download_b_file *)

TransferReturned == xfer_pc = "done"
LastSample == samples[Len(samples)]

\* C21: the value normal_download_b_file returns is the number of body
\* bytes it received and wrote, whatever the response advertised.
C21_ReturnsBytesReceived ==
    TransferReturned => xfer_return = Some(current_len)

\* C22: samples are emitted only when a total length was advertised; two
\* consecutive samples are at least 100 ms apart unless the later one was
\* emitted with the received bytes at or beyond the total; and once the
\* received bytes have reached the total, the chunk that brought them there
\* has emitted a sample (a callback being given).
C22_SamplesRateLimited ==
    /\ samples # <<>> => total_len > 0
    /\ \A i \in 2..Len(samples) :
         \/ samples[i].at - samples[i-1].at >= SampleInterval
         \/ samples[i].current >= total_len
    /\ (progress_callback /\ total_len > 0 /\ current_len >= total_len)
         => (samples # <<>> /\ LastSample.current = current_len)

\* a sample 100 ms after the start, a chunk that emits nothing, and the
\* final chunk emitting less than 100 ms after the first sample
C22_Witness ==
    /\ TransferReturned
    /\ chunk_no = 3 /\ Len(samples) = 2
    /\ samples[1].current < total_len
    /\ samples[2].current >= total_len
    /\ samples[2].at - samples[1].at < SampleInterval

\* the bytes and the clock reading a sample is measured from
SampleBase(i) ==
    IF i = 1 THEN [current |-> 0, at |-> start_time]
    ELSE [current |-> samples[i-1].current, at |-> samples[i-1].at]

\* C28: over the samples of one transfer the received bytes strictly
\* increase, each throughput is computed from the bytes and the time since
\* the sample before (since the start for the first), last_len never
\* exceeds current_len, and last_time and last_len always hold the values of
\* the latest sample.
C28_SamplesIncrease ==
    /\ \A i \in 2..Len(samples) : samples[i].current > samples[i-1].current
    /\ \A i \in 1..Len(samples) :
         samples[i].speed = speed(samples[i].current, SampleBase(i).current,
                                  samples[i].at - SampleBase(i).at)
    /\ last_len <= current_len
    /\ last_len = (IF samples = <<>> THEN 0 ELSE LastSample.current)
    /\ last_time = (IF samples = <<>> THEN start_time ELSE LastSample.at)

\* two samples with positive throughput, the second measured over two chunks
C28_Witness ==
    /\ chunk_no = 3 /\ Len(samples) = 2
    /\ samples[1].speed > 0 /\ samples[2].speed > 0
    /\ samples[2].current - samples[1].current >= 2

----------------------------------------------------------------------------
(* Properties of estimate_size *)

Estimated == est_sizes # None
\* the two argument lists differ at most in the named field
SameButTimelength ==
    /\ est_args[1].stream = est_args[2].stream
    /\ est_args[1].audio_stream = est_args[2].audio_stream
SameButVideoBitrate ==
    /\ est_args[1].stream.duration = est_args[2].stream.duration
    /\ est_args[1].audio_stream = est_args[2].audio_stream
    /\ est_args[1].timelength = est_args[2].timelength
SameButAudioBitrate ==
    /\ est_args[1].stream = est_args[2].stream
    /\ est_args[1].audio_stream # None /\ est_args[2].audio_stream # None
    /\ est_args[1].audio_stream[1].duration = est_args[2].audio_stream[1].duration
    /\ est_args[1].timelength = est_args[2].timelength
BitrateMonotone ==
    /\ (SameButVideoBitrate
          /\ est_args[1].stream.bandwidth <= est_args[2].stream.bandwidth)
         => est_sizes[1][1] <= est_sizes[1][2]
    /\ (SameButAudioBitrate
          /\ est_args[1].audio_stream[1].bandwidth <= est_args[2].audio_stream[1].bandwidth)
         => est_sizes[1][1] <= est_sizes[1][2]
\* the duration embedded in the descriptors of argument list i, in seconds
EmbeddedDuration(i) ==
    IF est_args[i].stream.duration # 0 THEN est_args[i].stream.duration
    ELSE IF est_args[i].audio_stream # None THEN est_args[i].audio_stream[1].duration
    ELSE 0

----------------------------------------------------------------------------
(* Properties of calculate_fnval *)

\* the tier bit the claim gives to a quality number, 0 for none
ClaimedTierBit(q) ==
    IF q = 127 THEN 1024 ELSE IF q = 126 THEN 512
    ELSE IF q = 125 THEN 64 ELSE IF q = 120 THEN 128 ELSE 0
BaseFlags == 16 + 2048

\* C26: without smart mode the qualities 127, 126, 125 and 120 add the bit
\* 1024, 512, 64 and 128 to the base flags 16|2048 and set fourk = 1, every
\* other quality gives the base flags with fourk = 0; smart mode gives the
\* base flags with all four bits and fourk = 1 for every quality.
C26_FnvalBits ==
    fn_result # None =>
        IF fn_smart
        THEN fn_result[1] = [fnval |-> BaseFlags + 1024 + 512 + 64 + 128, fourk |-> 1]
        ELSE IF ClaimedTierBit(fn_qn) # 0
        THEN fn_result[1] = [fnval |-> BaseFlags + ClaimedTierBit(fn_qn), fourk |-> 1]
        ELSE fn_result[1] = [fnval |-> BaseFlags, fourk |-> 0]

C26_Witness ==
    /\ fn_result # None /\ ~fn_smart /\ fn_qn = 125
    /\ fn_result[1] = [fnval |-> 2128, fourk |-> 1]

----------------------------------------------------------------------------
(* Properties of get_scan_code_data *)

ScanReturned == scan_pc = "done"
EventCount(e) == Cardinality({i \in 1..Len(scan_events) : scan_events[i] = e})
\* every hook call precedes every poll request
HookBeforePolls ==
    \A i, j \in 1..Len(scan_events) :
        (scan_events[i] = "hook" /\ scan_events[j] = "poll") => i < j
\* the last poll answered with code 0
PollSucceeded ==
    /\ scan_events # <<>> /\ scan_events[Len(scan_events)] = "poll"
    /\ scan_pc \in {"return", "done"} /\ code = 0
\* at most 3 polls; the credential of the successful answer is returned
\* and the empty credential in every other case
PollsBoundedAndCredential ==
    /\ EventCount("poll") <= 3
    /\ ScanReturned =>
         scan_result = Some(IF PollSucceeded THEN SessData(set_cookie) ELSE "")

\* C24 as stated: at most 3 poll requests; the hook passed is invoked
\* exactly once, before the first poll; the credential is returned when a
\* poll reports success and the empty credential otherwise.
C24_HookExactlyOnce ==
    /\ PollsBoundedAndCredential
    /\ HookBeforePolls
    /\ (ScanReturned /\ hook) => EventCount("hook") = 1

\* C24 amended: as above, the hook being invoked exactly once when the QR
\* image was produced and not at all when producing it failed.
C24_HookOncePerQrCode ==
    /\ PollsBoundedAndCredential
    /\ HookBeforePolls
    /\ (ScanReturned /\ hook) => EventCount("hook") = EventCount("qrcode")
    /\ EventCount("qrcode") <= 1
    /\ ~hook => EventCount("hook") = 0

\* the third poll reports success after two pending answers, hook called
C24_Witness ==
    /\ ScanReturned /\ hook
    /\ scan_events = <<"generate", "qrcode", "hook", "poll", "poll", "poll">>
    /\ attempt_count = 2 /\ scan_result = Some("abc")

\* no QR image, no hook call, empty credential
C24_WitnessNoQrCode ==
    /\ ScanReturned /\ hook
    /\ scan_events = <<"generate">> /\ scan_result = Some("")

----------------------------------------------------------------------------
(* Properties of the two strip threads of process_file_pair *)

\* remove_leading_zeros run alone from the given point to its end
RECURSIVE StripRun(_, _, _, _)
StripRun(file, pos, out, phase) ==
    IF phase = "done" THEN out
    ELSE LET r == StripChunk(file, pos, out, phase)
         IN  StripRun(file, r.pos, r.out, r.phase)
Stripped(file) == StripRun(file, 0, <<>>, "phase1")

\* C25: the two strip threads write two distinct temp files; from the
\* point where the sizes are compared on, both threads have ended, and the
\* sizes compared are those of the two completely stripped files, whatever
\* the interleaving of the threads was.
C25_ClassifyAfterBothThreads ==
    /\ pair_pc # "idle" => TempPath(1) # TempPath(2)
    /\ pair_pc \in {"classify", "remux", "done", "raised"}
         => thread_pc = [t \in {1, 2} |-> "done"]
    /\ pair_pc = "classify"
         => /\ temp_file[TempPath(1)] = Some(Stripped(file1))
            /\ temp_file[TempPath(2)] = Some(Stripped(file2))
    /\ pair_pc = "remux"
         => size1 = Len(Stripped(file1)) /\ size2 = Len(Stripped(file2))

\* the sizes have been compared after two strips of several blocks each
C25_Witness ==
    /\ pair_pc = "remux"
    /\ thread_pos[1] > BLOCK_SIZE /\ thread_pos[2] > BLOCK_SIZE
    /\ size1 > 0 /\ size2 > size1

\* both threads are in the middle of their files at the same time
C25_BothThreadsRunning ==
    /\ pair_pc = "join1"
    /\ thread_pc[1] \in {"phase1", "phase2"} /\ thread_pc[2] \in {"phase1", "phase2"}
    /\ thread_pos[1] > 0 /\ thread_pos[1] < Len(file1)
    /\ thread_pos[2] > 0 /\ thread_pos[2] < Len(file2)

----------------------------------------------------------------------------
(* Properties of the two transfers of start_download *)

BothTracks == {"video", "audio"}
AssemblyStarted == dl_pc = "merge" \/ merge_result # "none"
\* a download_b_file call that was made and did not return
TransferFailed == \E i \in 1..Len(transfers) : transfers[i] \notin completed

\* C27: the assembly is started only for a result with both URLs and only
\* after the video transfer and then the audio transfer have both returned;
\* once a transfer has failed the assembly is never started.
C27_MergeAfterBothTransfers ==
    /\ AssemblyStarted
         => /\ result.videoUrl # None /\ result.audioUrl # None
            /\ transfers = <<"video", "audio">>
            /\ completed = BothTracks
    /\ TransferFailed => (dl_pc = "failed" /\ merge_result = "none")

\* both transfers returned and the assembly ran
C27_Witness ==
    /\ merge_result = "ok" /\ completed = BothTracks

\* the audio transfer failed after the video transfer returned
C27_WitnessAudioFailed ==
    /\ transfers = <<"video", "audio">> /\ completed = {"video"}
    /\ dl_pc = "failed" /\ merge_result = "none"

----------------------------------------------------------------------------
(* Properties of the batch loop of the gui *)

\* C29: in the gui's batch run every call of process_file_pair is made with
\* the arguments the function requires, so that it ends as its strip and
\* remux steps end (completed when they succeed), and after a failed pair
\* the loop goes on to the pairs that follow.
C29_GuiCallsRunThePair ==
    caller = "gui" =>
        /\ \A k \in 1..Len(outcomes) : outcomes[k] \in RemuxOutcomes
        /\ batch_pc = "done" => Len(outcomes) = Len(file_pairs[1])

\* the gui's loop went through two pairs and every call failed the same way
C29_EveryGuiCallRaises ==
    /\ caller = "gui" /\ batch_pc = "done"
    /\ outcomes = <<"TypeError", "TypeError">>

----------------------------------------------------------------------------
(* Properties of the QR login dialog *)

RunningThreads == {i \in 1..Len(threads) : isRunning(threads[i])}
ResultSignals(i) ==
    {k \in 1..Len(threads[i].signals) :
        threads[i].signals[k] \in {"login_success", "login_failed"}}

\* C30: at no time are two login threads of a dialog running; a thread
\* that has ended has emitted exactly one of login_success and
\* login_failed, and no thread emits more than one.
C30_OneLoginThread ==
    /\ Cardinality(RunningThreads) <= 1
    /\ RunningThreads \subseteq {qr_thread}
    /\ \A i \in 1..Len(threads) :
         Cardinality(ResultSignals(i)) = (IF threads[i].pc = "scan" THEN 0 ELSE 1)

\* a refresh request was ignored while the first thread ran; after that
\* thread failed, a later request started the second
C30_Witness ==
    /\ Len(threads) = 2 /\ refresh_requests = 3
    /\ threads[1] = [pc |-> "finished", signals |-> <<"qr_ready", "login_failed">>]
    /\ threads[2].pc = "scan"

====
